---- MODULE Spec2Model ----
(***************************************************************************)
(* Model of "#projeto grafos.py" (projeto-grafos): the loader              *)
(* carregar_grafo, the reducer gerar_subgrafo_reduzido and the ranking of  *)
(* identificar_potenciais_espalhadores.                                    *)
(*                                                                         *)
(* A graph is the networkx DiGraph the script builds, kept as the three    *)
(* dictionaries networkx keeps: node (insertion order), succ and pred      *)
(* (node -> neighbour -> weight).                                          *)
(***************************************************************************)
EXTENDS Integers, Sequences, FiniteSets, TLC

\* ------------------------------------------------------------------ bounds
\* Records carregar_grafo accepts before the file ends.
MaxRecords == 3

\* Source / target tokens of the input lines.
Tokens == {"A", "B", "C"}

\* Third tokens of the input lines, as their characters: numerals, and
\* tokens that are no numeral.
Numerais == { <<"1">>, <<"2">>, <<"0">>, <<"-", "1">>, <<"+", "2">> }
NaoNumerais == { <<"x">>, <<"-">>, <<"1", "x">>, <<"2", "-">> }

\* The pairs whose lines carry every numeral; the other pairs come as
\* two-token lines (weight 1) only.
ParesComPeso == { <<"A", "B">> }

\* The lines of the input file after strip().split(): 0, 1, 2, 3 or 4 tokens.
Linhas ==
  { <<>> }
  \cup { <<u>> : u \in Tokens }
  \cup { <<u, v>> : u \in Tokens, v \in Tokens }
  \cup { <<u, v, w>> : u \in Tokens, v \in Tokens, w \in NaoNumerais }
  \cup { <<e[1], e[2], w>> : e \in ParesComPeso, w \in Numerais }
  \cup { <<e[1], e[2], w, "extra">> : e \in ParesComPeso, w \in {<<"2">>, <<"x">>} }

\* ------------------------------------------------------------- int(partes[2])
Digits == {"0", "1", "2", "3", "4"}

DigitVal(c) == CASE c = "0" -> 0 [] c = "1" -> 1 [] c = "2" -> 2 [] c = "3" -> 3
                 [] c = "4" -> 4

\* The digits of a token once an optional sign is taken off.
Unsigned(tok) ==
  IF Len(tok) > 0 /\ tok[1] \in {"+", "-"} THEN Tail(tok) ELSE tok

\* int(tok) raises ValueError unless tok is an optional sign and >= 1 digits.
RaisesValueError(tok) ==
  LET d == Unsigned(tok)
  IN  Len(d) = 0 \/ \E i \in 1..Len(d) : d[i] \notin Digits

RECURSIVE Decimal(_)
Decimal(d) ==
  IF Len(d) = 0 THEN 0
  ELSE 10 * Decimal(SubSeq(d, 1, Len(d) - 1)) + DigitVal(d[Len(d)])

\* int(tok) for a token that parses.
PyInt(tok) ==
  IF tok[1] = "-" THEN 0 - Decimal(Unsigned(tok)) ELSE Decimal(Unsigned(tok))

\* ------------------------------------------------------------ nx.DiGraph
Range(s) == { s[i] : i \in 1..Len(s) }

EmptyMap == [x \in {} |-> 0]

\* nx.DiGraph()
DiGraph == [node |-> <<>>, succ |-> EmptyMap, pred |-> EmptyMap]

\* nx.Graph()
Graph == [node |-> <<>>, adj |-> EmptyMap]

\* m with m[k] = val, added or overwritten.
Put(m, k, val) == (k :> val) @@ m

\* DiGraph.add_edge's n not in self._succ branch: a new node, no neighbours.
AddNode(g, n) ==
  IF n \in DOMAIN g.succ THEN g
  ELSE [node |-> Append(g.node, n),
        succ |-> Put(g.succ, n, EmptyMap),
        pred |-> Put(g.pred, n, EmptyMap)]

\* A plausible slip: the weights of a repeated pair add up.
EdgeDataSoma(old, w) == old + w

\* The data dictionary of edge (u, v) after add_edge(u, v, weight=w):
\* datadict.update(attr) replaces the weight.
EdgeData(old, w) == w

\* A plausible slip: the reverse index is not updated.
AddEdgeSemPred(g, u, v, w) ==
  LET g1 == AddNode(g, u)
      g2 == AddNode(g1, v)
  IN  [node |-> g2.node,
       succ |-> [g2.succ EXCEPT ![u] = Put(@, v, w)],
       pred |-> g2.pred]

\* grafo.add_edge(u, v, weight=w)
AddEdge(g, u, v, w) ==
  LET g1 == AddNode(g, u)
      g2 == AddNode(g1, v)
      dd == EdgeData(IF v \in DOMAIN g2.succ[u] THEN g2.succ[u][v] ELSE 0, w)
  IN  [node |-> g2.node,
       succ |-> [g2.succ EXCEPT ![u] = Put(@, v, dd)],
       pred |-> [g2.pred EXCEPT ![v] = Put(@, u, dd)]]

Nodes(g) == Range(g.node)
number_of_nodes(g) == Len(g.node)
Edges(g) == { e \in (DOMAIN g.succ) \X (DOMAIN g.succ) : e[2] \in DOMAIN g.succ[e[1]] }
number_of_edges(g) == Cardinality(Edges(g))
Weight(g, u, v) == g.succ[u][v]
out_degree(g, n) == Cardinality(DOMAIN g.succ[n])
in_degree(g, n) == Cardinality(DOMAIN g.pred[n])
\* A plausible slip: only the edges that leave the node are counted.
degree_so_saida(g, n) == out_degree(g, n)
\* DiGraph.degree: a self-loop counts once as outgoing and once as incoming.
degree(g, n) == out_degree(g, n) + in_degree(g, n)

\* ------------------------------------------------------------------ state
VARIABLES
  pc,                      \* where main is: "load", "loaded"
  grafo,                   \* the graph carregar_grafo builds
  interacoes_processadas,  \* carregar_grafo's counter
  aviso,                   \* the warning the last line printed ("" if none)
  rejeitada,               \* history: the last line read was a malformed record
  houve_rejeicao,          \* history: some line read so far was malformed
  aceitos,                 \* history: pair -> weight of its last accepted record
  primeiro,                \* history: pair -> weight of its first accepted record
  tamanho,                 \* gerar_subgrafo_reduzido's argument
  metodo,                  \* gerar_subgrafo_reduzido's argument
  nos_selecionados,        \* gerar_subgrafo_reduzido's selection
  subgrafo,                \* the graph gerar_subgrafo_reduzido returned
  saida,                   \* how gerar_subgrafo_reduzido ended ("" before the call)
  pagerank,                \* identificar_potenciais_espalhadores: the four
  degree_cent,             \*   metric maps, node -> value, {} when not
  betweenness,             \*   computed
  closeness,
  excecoes,                \* the metric calls that raised
  scores,                  \* node -> composite score
  top_n,                   \* identificar_potenciais_espalhadores's argument
  top_spreaders,           \* the ranked list of <<node, score>>
  iteracoes,               \* steps the PageRank power iteration took
  analisado,               \* the graph detectar_comunidades was called on
  comunidades,             \* the list detectar_comunidades returned
  deteccao,                \* how detectar_comunidades ended ("" before the call)
  exibidas,                \* analisar_centralidades: the metrics it displayed
  abortou,                 \* analisar_centralidades: an exception left it
  num_nos,                 \* the node count the size guard is applied to
  tentadas,                \* the metric calls the size guard let through
  etapas,                  \* the functions main has called so far
  encerrou,                \* how main ended ("" while it runs)
  grafo_und,               \* detectar_comunidades: grafo.to_undirected()
  comunidade_count,        \* the spreader distribution: community id -> count
  atributos,               \* node attributes of grafo and of exportar_gephi's copy
  gexf,                    \* how nx.write_gexf ended ("" before the call)
  exportado,               \* the graph exportar_gephi was called on
  arquivo                  \* history: the lines of the file read as a whole

carga == <<grafo, interacoes_processadas, aviso, rejeitada, houve_rejeicao,
           aceitos, primeiro>>
reducao == <<tamanho, metodo, nos_selecionados, subgrafo, saida>>
ranking == <<pagerank, degree_cent, betweenness, closeness, excecoes,
             scores, top_n, top_spreaders, iteracoes>>
analise == <<analisado, comunidades, deteccao, exibidas, abortou, num_nos, tentadas>>
principal == <<etapas, encerrou, grafo_und, comunidade_count, atributos, gexf, exportado,
               arquivo>>
vars == <<pc, carga, reducao, ranking, analise, principal>>

Init ==
  /\ pc = "load"
  /\ grafo = DiGraph
  /\ interacoes_processadas = 0
  /\ aviso = ""
  /\ rejeitada = FALSE
  /\ houve_rejeicao = FALSE
  /\ aceitos = EmptyMap
  /\ primeiro = EmptyMap
  /\ tamanho = 0
  /\ metodo = ""
  /\ nos_selecionados = <<>>
  /\ subgrafo = DiGraph
  /\ saida = ""
  /\ pagerank = EmptyMap
  /\ degree_cent = EmptyMap
  /\ betweenness = EmptyMap
  /\ closeness = EmptyMap
  /\ excecoes = {}
  /\ scores = EmptyMap
  /\ top_n = 0
  /\ top_spreaders = <<>>
  /\ iteracoes = 0
  /\ analisado = DiGraph
  /\ comunidades = <<>>
  /\ deteccao = ""
  /\ exibidas = {}
  /\ abortou = FALSE
  /\ num_nos = 0
  /\ tentadas = {}
  /\ etapas = {}
  /\ encerrou = ""
  /\ grafo_und = Graph
  /\ comunidade_count = EmptyMap
  /\ atributos = [original |-> EmptyMap, copia |-> EmptyMap]
  /\ gexf = ""
  /\ exportado = DiGraph
  /\ arquivo = <<>>

\* A plausible slip: the endpoints are added before the weight is parsed.
ProcessaLinhaNosAntes(g, n, p) ==
  IF Len(p) >= 3 THEN
    IF RaisesValueError(p[3])
    THEN [g |-> AddNode(AddNode(g, p[1]), p[2]), n |-> n, aviso |-> "erro de valor"]
    ELSE [g |-> AddEdge(g, p[1], p[2], PyInt(p[3])), n |-> n + 1, aviso |-> ""]
  ELSE IF Len(p) = 2
    THEN [g |-> AddEdge(g, p[1], p[2], 1), n |-> n + 1, aviso |-> ""]
    ELSE [g |-> g, n |-> n, aviso |-> "poucas colunas"]

\* A plausible slip: a line of one token adds its node to the graph.
ProcessaLinhaComNoSolto(g, n, p) ==
  IF Len(p) >= 3 THEN
    IF RaisesValueError(p[3])
    THEN [g |-> g, n |-> n, aviso |-> "erro de valor"]
    ELSE [g |-> AddEdge(g, p[1], p[2], PyInt(p[3])), n |-> n + 1, aviso |-> ""]
  ELSE IF Len(p) = 2
    THEN [g |-> AddEdge(g, p[1], p[2], 1), n |-> n + 1, aviso |-> ""]
    ELSE IF Len(p) = 1
      THEN [g |-> AddNode(g, p[1]), n |-> n, aviso |-> "poucas colunas"]
      ELSE [g |-> g, n |-> n, aviso |-> "poucas colunas"]

\* The body of carregar_grafo's for loop on one line of the file: the graph,
\* the counter and the warning after the line.
ProcessaLinha(g, n, p) ==
  IF Len(p) >= 3 THEN
    IF RaisesValueError(p[3])
    THEN [g |-> g, n |-> n, aviso |-> "erro de valor"]
    ELSE [g |-> AddEdge(g, p[1], p[2], PyInt(p[3])), n |-> n + 1, aviso |-> ""]
  ELSE IF Len(p) = 2
    THEN [g |-> AddEdge(g, p[1], p[2], 1), n |-> n + 1, aviso |-> ""]
    ELSE [g |-> g, n |-> n, aviso |-> "poucas colunas"]

\* The record as the input format reads it: malformed with fewer than two
\* tokens, or with a third token that is no integer numeral.
Malformada(p) ==
  \/ Len(p) < 2
  \/ Len(p) >= 3 /\ p[3] \notin Numerais
PesoEscrito(p) ==
  IF Len(p) = 2 THEN 1
  ELSE CASE p[3] = <<"1">> -> 1 [] p[3] = <<"2">> -> 2 [] p[3] = <<"0">> -> 0
         [] p[3] = <<"-", "1">> -> 0 - 1 [] p[3] = <<"+", "2">> -> 2

\* for linha in arquivo: one line of the input.
LeLinha ==
  /\ pc = "load"
  /\ interacoes_processadas < MaxRecords
  /\ \E p \in Linhas :
       LET r == ProcessaLinha(grafo, interacoes_processadas, p)
           e == <<p[1], p[2]>>
       IN  /\ grafo' = r.g
           /\ interacoes_processadas' = r.n
           /\ aviso' = r.aviso
           /\ rejeitada' = Malformada(p)
           /\ houve_rejeicao' = (houve_rejeicao \/ Malformada(p))
           /\ aceitos' = IF Malformada(p) THEN aceitos
                         ELSE Put(aceitos, e, PesoEscrito(p))
           /\ primeiro' = IF Malformada(p) \/ e \in DOMAIN primeiro THEN primeiro
                          ELSE Put(primeiro, e, PesoEscrito(p))
  /\ UNCHANGED <<principal, pc, reducao, ranking, analise>>

\* End of the file: carregar_grafo returns grafo; the loop's own history ends.
FimArquivo ==
  /\ pc = "load"
  /\ pc' = "loaded"
  /\ aviso' = ""
  /\ rejeitada' = FALSE
  /\ houve_rejeicao' = FALSE
  /\ primeiro' = EmptyMap
  /\ UNCHANGED <<principal, grafo, interacoes_processadas, aceitos, reducao, ranking, analise>>

\* Whole input files. Two cliques of four nodes with no edge between them:
\* each pair written one way, both ways, or some of each.
ParesDoisCliques ==
  << <<"A", "B">>, <<"A", "C">>, <<"A", "D">>, <<"B", "C">>, <<"B", "D">>, <<"C", "D">>,
     <<"E", "F">>, <<"E", "G">>, <<"E", "H">>, <<"F", "G">>, <<"F", "H">>, <<"G", "H">> >>
RECURSIVE LinhasDosPares(_, _)
LinhasDosPares(ps, modo) ==
  IF Len(ps) = 0 THEN <<>>
  ELSE LET e == Head(ps)
           ida == <<e[1], e[2]>>
           volta == <<e[2], e[1]>>
           aqui == CASE modo = "ida" -> << ida >>
                     [] modo = "volta" -> << volta >>
                     [] modo = "ambas" -> << ida, volta >>
                     [] modo = "mista" -> IF e[1] \in {"A", "F"} THEN << ida, volta >>
                                          ELSE IF e[2] \in {"D", "G"} THEN << volta >>
                                          ELSE << ida >>
       IN  aqui \o LinhasDosPares(Tail(ps), modo)
ExemplosDeCliques ==
  { LinhasDosPares(ParesDoisCliques, modo) : modo \in {"ida", "ambas", "mista"} }

\* The end-to-end example of four weighted records, a star of three leaves
\* pointing at its centre, two edges with no node in common, a path with a
\* self-loop at its end, a file whose records are all rejected, and the
\* empty file.
Exemplos ==
  { << <<"A", "B", <<"3">> >>, <<"B", "C", <<"1">> >>,
       <<"A", "C", <<"2">> >>, <<"C", "A", <<"4">> >> >>,
    << <<"B", "A">>, <<"C", "A">>, <<"D", "A">> >>,
    << <<"A", "B">>, <<"C", "D">> >>,
    << <<"A", "B">>, <<"B", "C">>, <<"C", "C">> >>,
    << <<"A">>, <<"A", "B", <<"x">> >> >>,
    << >> }

\* carregar_grafo on a whole file: the loop body on each line in turn.
RECURSIVE Carrega(_, _)
Carrega(r, linhas) ==
  IF Len(linhas) = 0 THEN r
  ELSE LET p == Head(linhas)
           q == ProcessaLinha(r.g, r.n, p)
       IN  IF q.aviso = ""
           THEN Carrega([g |-> q.g, n |-> q.n,
                         aceitos |-> Put(r.aceitos, <<p[1], p[2]>>,
                                         IF Len(p) = 2 THEN 1 ELSE PyInt(p[3]))],
                        Tail(linhas))
           ELSE Carrega([g |-> q.g, n |-> q.n, aceitos |-> r.aceitos], Tail(linhas))

\* carregar_grafo from its first line to its return, on one of the small
\* files.
CarregaExemplo ==
  /\ pc = "load"
  /\ interacoes_processadas = 0
  /\ ~houve_rejeicao /\ ~rejeitada
  /\ \E arq \in Exemplos :
       LET r == Carrega([g |-> DiGraph, n |-> 0, aceitos |-> EmptyMap], arq)
       IN  /\ grafo' = r.g
           /\ interacoes_processadas' = r.n
           /\ aceitos' = r.aceitos
           /\ arquivo' = arq
  /\ pc' = "loaded"
  /\ UNCHANGED <<aviso, rejeitada, houve_rejeicao, primeiro, reducao, ranking, analise,
                 etapas, encerrou, grafo_und, comunidade_count, atributos, gexf,
                 exportado>>

\* carregar_grafo from its first line to its return, on one of the files of
\* two cliques.
CarregaCliques ==
  /\ pc = "load"
  /\ interacoes_processadas = 0
  /\ ~houve_rejeicao /\ ~rejeitada
  /\ \E arq \in ExemplosDeCliques :
       LET r == Carrega([g |-> DiGraph, n |-> 0, aceitos |-> EmptyMap], arq)
       IN  /\ grafo' = r.g
           /\ interacoes_processadas' = r.n
           /\ aceitos' = r.aceitos
           /\ arquivo' = arq
  /\ pc' = "loaded"
  /\ UNCHANGED <<aviso, rejeitada, houve_rejeicao, primeiro, reducao, ranking, analise,
                 etapas, encerrou, grafo_und, comunidade_count, atributos, gexf,
                 exportado>>

\* ------------------------------------------------- gerar_subgrafo_reduzido
\* TAMANHO_SUBGRAFO_ALVO of main, and the default of the parameter tamanho.
TAMANHO_SUBGRAFO_ALVO == 500

\* The sizes and methods the reducer is called with.
Tamanhos == (0 - 1 .. 3) \cup {TAMANHO_SUBGRAFO_ALVO}
Metodos == {"grau", "aleatorio", "outro"}

Min(a, b) == IF a <= b THEN a ELSE b
Max(a, b) == IF a >= b THEN a ELSE b

\* Python's s[:k]: the first k items, or all but the last -k when k < 0.
PySlice(s, k) ==
  IF k >= 0 THEN SubSeq(s, 1, Min(k, Len(s)))
  ELSE SubSeq(s, 1, Max(Len(s) + k, 0))

\* A plausible slip: an ascending sort read backwards, which puts the later
\* of two nodes of equal degree first.
OrdenadosPorGrauInvertido(g) ==
  LET n == Len(g.node)
      grau(i) == degree(g, g.node[i])
      pos(i) == 1 + Cardinality({ j \in 1..n : grau(j) > grau(i) })
                  + Cardinality({ j \in 1..n : j > i /\ grau(j) = grau(i) })
  IN  [k \in 1..n |-> g.node[CHOOSE i \in 1..n : pos(i) = k]]

\* sorted(grafo_original.degree(), key=lambda item: item[1], reverse=True):
\* the nodes by decreasing degree; the sort is stable, so nodes of equal
\* degree stay in the graph's node order.
OrdenadosPorGrau(g) ==
  LET n == Len(g.node)
      grau(i) == degree(g, g.node[i])
      pos(i) == 1 + Cardinality({ j \in 1..n : grau(j) > grau(i) })
                  + Cardinality({ j \in 1..n : j < i /\ grau(j) = grau(i) })
  IN  [k \in 1..n |-> g.node[CHOOSE i \in 1..n : pos(i) = k]]

\* The sequences of k distinct items of the set S.
Amostras(S, k) ==
  { f \in [1..k -> S] : \A i \in 1..k, j \in 1..k : i # j => f[i] # f[j] }

\* A plausible slip: an edge is kept when its source alone is selected.
InduzidoPelaOrigem(g, ordem) ==
  LET S == Range(ordem)
  IN  [node |-> ordem,
       succ |-> [u \in S |-> g.succ[u]],
       pred |-> [v \in S |-> [u \in DOMAIN g.pred[v] \cap S |-> g.pred[v][u]]]]

\* The copy of the subgraph view on the nodes of ordem: the edges of g with
\* both ends among them, each with its data.
Induzido(g, ordem) ==
  LET S == Range(ordem)
  IN  [node |-> ordem,
       succ |-> [u \in S |-> [v \in DOMAIN g.succ[u] \cap S |-> g.succ[u][v]]],
       pred |-> [v \in S |-> [u \in DOMAIN g.pred[v] \cap S |-> g.pred[v][u]]]]

\* The node orders grafo_original.subgraph(nos).copy() can have: the filter
\* walks the graph's nodes in order, or, when the selection is less than
\* half of the graph, the selection's own set, whose order is arbitrary.
OrdensDoSubgrafo(g, S) ==
  LET dentro(x) == x \in S
  IN  IF 2 * Cardinality(S) < Len(g.node)
      THEN Amostras(S, Cardinality(S))
      ELSE { SelectSeq(g.node, dentro) }

\* A plausible slip: the copy loses the edge data.
CopiaSemPesos(g) ==
  [node |-> g.node,
   succ |-> [u \in DOMAIN g.succ |-> [v \in DOMAIN g.succ[u] |-> 1]],
   pred |-> [v \in DOMAIN g.pred |-> [u \in DOMAIN g.pred[v] |-> 1]]]

\* grafo_original.copy()
Copia(g) == g

\* The outcomes of gerar_subgrafo_reduzido(g, t, m): how it ended, the
\* selection it made and the graph it returned (none when it raised).
gerar_subgrafo_reduzido(g, t, m) ==
  LET num_nos_original == number_of_nodes(g)
      tamanho_efetivo == Min(t, num_nos_original)
      fim(como, sel, h) == [saida |-> como, sel |-> sel, g |-> h]
      comSelecao(sel) ==
        IF Len(sel) = 0
        THEN { fim("copia_sem_selecao", sel, Copia(g)) }
        ELSE { fim("subgrafo", sel, Induzido(g, o)) :
                 o \in OrdensDoSubgrafo(g, Range(sel)) }
  IN  IF num_nos_original = 0 THEN { fim("copia_vazia", <<>>, Copia(g)) }
      ELSE IF num_nos_original <= tamanho_efetivo
        THEN { fim("copia", <<>>, Copia(g)) }
      ELSE IF m = "grau"
        THEN comSelecao(PySlice(OrdenadosPorGrau(g), tamanho_efetivo))
      ELSE IF tamanho_efetivo < 0
        \* random.sample raises ValueError on a negative sample size
        THEN { fim("ValueError", <<>>, DiGraph) }
      ELSE UNION { comSelecao(sel) : sel \in Amostras(Nodes(g), tamanho_efetivo) }

\* A call of gerar_subgrafo_reduzido on the loaded graph.
Reduz ==
  /\ pc = "loaded"
  /\ \E t \in Tamanhos, m \in Metodos :
       \E r \in gerar_subgrafo_reduzido(grafo, t, m) :
         /\ tamanho' = t
         /\ metodo' = m
         /\ nos_selecionados' = r.sel
         /\ subgrafo' = r.g
         /\ saida' = r.saida
  /\ pc' = "reduced"
  /\ UNCHANGED <<principal, carga, ranking, analise>>

\* A plausible slip: the reduction is called on the graph after the records
\* were read, not before.
carregar_grafo_pesado_depois(arq, t) ==
  UNION { LET r == Carrega([g |-> DiGraph, n |-> 0, aceitos |-> EmptyMap], arq)
          IN  { [g |-> d.g, n |-> r.n, aceitos |-> r.aceitos, antes |-> r0] :
                  d \in gerar_subgrafo_reduzido(r.g, t, "grau") } :
            r0 \in gerar_subgrafo_reduzido(DiGraph, t, "grau") }

\* carregar_grafo of the heavy revision on a whole file:
\*   grafo = nx.DiGraph()
\*   grafo = gerar_subgrafo_reduzido(grafo, tamanho=...)
\* and then the loop over the lines, on the graph the call returned.
carregar_grafo_pesado(arq, t) ==
  { LET r == Carrega([g |-> r0.g, n |-> 0, aceitos |-> EmptyMap], arq)
    IN  [g |-> r.g, n |-> r.n, aceitos |-> r.aceitos, antes |-> r0] :
      r0 \in gerar_subgrafo_reduzido(DiGraph, t, "grau") }

\* carregar_grafo of the heavy revision from its first line to its return,
\* on one of the small files; the size passed to the call before the loop
\* is TAMANHO_SUBGRAFO_ALVO or one of the small sizes that stand for it.
CarregaPesado ==
  /\ pc = "load"
  /\ interacoes_processadas = 0
  /\ ~houve_rejeicao /\ ~rejeitada
  /\ \E arq \in Exemplos, t \in Tamanhos :
       \E r \in carregar_grafo_pesado(arq, t) :
         /\ tamanho' = t
         /\ metodo' = "grau"
         /\ nos_selecionados' = r.antes.sel
         /\ subgrafo' = r.antes.g
         /\ saida' = r.antes.saida
         /\ grafo' = r.g
         /\ interacoes_processadas' = r.n
         /\ aceitos' = r.aceitos
         /\ arquivo' = arq
  /\ pc' = "loaded"
  /\ UNCHANGED <<aviso, rejeitada, houve_rejeicao, primeiro, ranking, analise,
                 etapas, encerrou, grafo_und, comunidade_count, atributos, gexf,
                 exportado>>

\* ------------------------------------------------------------ the metrics
\* A metric value is an exact rational, kept as its numerator over the
\* denominator UM: 1.0 is UM. PageRank is computed to the resolution of
\* networkx's tolerance tol = 1e-06, one part in inv_tol; the other three
\* metrics on graphs of up to three nodes are multiples of 1/12.
inv_tol == 1000000
UM == 12 * inv_tol

\* nx.pagerank's max_iter.
max_iter == 100

\* The sum of f[n] over the nodes of the sequence ns.
RECURSIVE Soma(_, _)
Soma(f, ns) == IF Len(ns) = 0 THEN 0 ELSE f[Head(ns)] + Soma(f, Tail(ns))

Abs(x) == IF x < 0 THEN 0 - x ELSE x

\* a / b to the nearest unit.
Quociente(a, b) ==
  IF b > 0 THEN (2 * a + b) \div (2 * b) ELSE (b - 2 * a) \div (0 - 2 * b)

\* nx.degree_centrality(grafo): degree / (n - 1), and 1 for every node of a
\* graph of at most one node.
degree_centrality(g) ==
  IF number_of_nodes(g) <= 1 THEN [n \in Nodes(g) |-> UM]
  ELSE [n \in Nodes(g) |-> (degree(g, n) * UM) \div (number_of_nodes(g) - 1)]

\* The neighbour sets a search follows: forwards, backwards, or both ways.
Sucessores(g) == [n \in Nodes(g) |-> DOMAIN g.succ[n]]
Predecessores(g) == [n \in Nodes(g) |-> DOMAIN g.pred[n]]
Vizinhos(g) == [n \in Nodes(g) |-> DOMAIN g.succ[n] \cup DOMAIN g.pred[n]]

\* Breadth-first search: the layers of nodes at hop distance 0, 1, 2, ...
RECURSIVE Camadas(_, _, _)
Camadas(adj, vistos, frente) ==
  IF frente = {} THEN <<>>
  ELSE LET prox == UNION { adj[u] : u \in frente } \ vistos
       IN  <<frente>> \o Camadas(adj, vistos \cup prox, prox)

\* Hop distances from s: a map over the nodes s reaches.
Distancias(adj, s) ==
  LET c == Camadas(adj, {s}, {s})
  IN  [t \in UNION Range(c) |-> (CHOOSE k \in 1..Len(c) : t \in c[k]) - 1]

\* A plausible slip: the connectivity test is left out, as it was in the
\* first version of analisar_centralidades.
is_weakly_connected_sem_teste(g) == TRUE

\* nx.is_weakly_connected(grafo), for a graph that is not empty.
is_weakly_connected(g) ==
  DOMAIN Distancias(Vizinhos(g), g.node[1]) = Nodes(g)

\* The number of shortest directed paths from s to t (0 when there is none).
RECURSIVE Sigma(_, _, _)
Sigma(g, s, t) ==
  LET d == Distancias(Sucessores(g), s)
  IN  IF t \notin DOMAIN d THEN 0
      ELSE IF t = s THEN 1
      ELSE LET antes == { u \in DOMAIN g.pred[t] : u \in DOMAIN d /\ d[u] = d[t] - 1 }
               parcela == [u \in Nodes(g) |-> IF u \in antes THEN Sigma(g, s, u) ELSE 0]
           IN  Soma(parcela, g.node)

\* A plausible slip: the end points of a path count as being on it
\* (endpoints=True).
betweenness_centrality_com_pontas(g) ==
  LET n == number_of_nodes(g)
      escala == IF n > 2 THEN (n - 1) * (n - 2) ELSE 1
      dist(s) == Distancias(Sucessores(g), s)
      porDentro(s, t, v) ==
        IF /\ t \in DOMAIN dist(s) /\ v \in DOMAIN dist(s) /\ t \in DOMAIN dist(v)
           /\ dist(s)[v] + dist(v)[t] = dist(s)[t]
        THEN (Sigma(g, s, v) * Sigma(g, v, t) * UM) \div (Sigma(g, s, t) * escala)
        ELSE 0
      pares(v) == { st \in Nodes(g) \X Nodes(g) : st[1] # st[2] }
      RECURSIVE SomaPares(_, _)
      SomaPares(v, ps) ==
        IF ps = {} THEN 0
        ELSE LET st == CHOOSE x \in ps : TRUE
             IN  porDentro(st[1], st[2], v) + SomaPares(v, ps \ {st})
  IN  [v \in Nodes(g) |-> SomaPares(v, pares(v))]

\* nx.betweenness_centrality(grafo): for every ordered pair (s, t) of other
\* nodes, the share of the shortest s-t paths (by hops) through v; the sum
\* is scaled by 1 / ((n-1)(n-2)) when n > 2.
betweenness_centrality(g) ==
  LET n == number_of_nodes(g)
      escala == IF n > 2 THEN (n - 1) * (n - 2) ELSE 1
      dist(s) == Distancias(Sucessores(g), s)
      porDentro(s, t, v) ==
        IF /\ t \in DOMAIN dist(s) /\ v \in DOMAIN dist(s) /\ t \in DOMAIN dist(v)
           /\ dist(s)[v] + dist(v)[t] = dist(s)[t]
        THEN (Sigma(g, s, v) * Sigma(g, v, t) * UM) \div (Sigma(g, s, t) * escala)
        ELSE 0
      pares(v) == { st \in Nodes(g) \X Nodes(g) :
                      st[1] # v /\ st[2] # v /\ st[1] # st[2] }
      RECURSIVE SomaPares(_, _)
      SomaPares(v, ps) ==
        IF ps = {} THEN 0
        ELSE LET st == CHOOSE x \in ps : TRUE
             IN  porDentro(st[1], st[2], v) + SomaPares(v, ps \ {st})
  IN  [v \in Nodes(g) |-> SomaPares(v, pares(v))]

\* nx.closeness_centrality(grafo): on a directed graph the distances are
\* those TO the node; (r-1)/total, scaled by (r-1)/(n-1), where r counts the
\* nodes that reach it, itself included; 0 when no other node reaches it.
closeness_centrality(g) ==
  LET n == number_of_nodes(g)
      sp(v) == Distancias(Predecessores(g), v)
      totsp(v) == Soma([u \in Nodes(g) |-> IF u \in DOMAIN sp(v) THEN sp(v)[u] ELSE 0],
                       g.node)
      r(v) == Cardinality(DOMAIN sp(v))
  IN  [v \in Nodes(g) |->
         IF totsp(v) > 0 /\ n > 1
         THEN ((r(v) - 1) * (r(v) - 1) * UM) \div (totsp(v) * (n - 1))
         ELSE 0]

\* The unit of the rank vector is 1 / UX, a tenth of the tolerance.
UX == 10 * inv_tol

\* A plausible slip: the rank of the dangling nodes is not handed out.
PassoPageRankSemSoltos(g, x) ==
  LET N == number_of_nodes(g)
      I == 1..N
      S(i) == Soma(g.succ[g.node[i]],
                   SelectSeq(g.node, LAMBDA v : v \in DOMAIN g.succ[g.node[i]]))
      entra(j) ==
        Soma([i \in I |->
                IF g.node[i] \in DOMAIN g.pred[g.node[j]] /\ S(i) # 0
                THEN Quociente(x[i] * g.succ[g.node[i]][g.node[j]], S(i)) ELSE 0],
             [i \in I |-> i])
      valor(j) == Quociente(17 * entra(j) + 3 * Quociente(UX, N), 20)
      RECURSIVE Novo(_)
      Novo(j) == IF j > N THEN <<>> ELSE <<valor(j)>> \o Novo(j + 1)
  IN  Novo(1)

\* One step of the power iteration on the vector x (a value per node, in
\* the order of g.node, in units of 1/UX), alpha = 0.85 = 17/20:
\* x = alpha * (x @ A + sum(x[is_dangling]) * 1/N) + (1 - alpha) * 1/N,
\* the rows of A being the out-weights over their sum S (a row of sum 0 is
\* dangling).
PassoPageRank(g, x) ==
  LET N == number_of_nodes(g)
      I == 1..N
      S(i) == Soma(g.succ[g.node[i]],
                   SelectSeq(g.node, LAMBDA v : v \in DOMAIN g.succ[g.node[i]]))
      soltos == Soma([i \in I |-> IF S(i) = 0 THEN x[i] ELSE 0], [i \in I |-> i])
      entra(j) ==
        Soma([i \in I |->
                IF g.node[i] \in DOMAIN g.pred[g.node[j]] /\ S(i) # 0
                THEN Quociente(x[i] * g.succ[g.node[i]][g.node[j]], S(i)) ELSE 0],
             [i \in I |-> i])
      valor(j) == Quociente(17 * (entra(j) + Quociente(soltos, N))
                              + 3 * Quociente(UX, N), 20)
      RECURSIVE Novo(_)
      Novo(j) == IF j > N THEN <<>> ELSE <<valor(j)>> \o Novo(j + 1)
  IN  Novo(1)

\* The body of "for _ in range(max_iter)": one more step from the state st,
\* which ends (fim) with the vector once the L1 change is below N * tol. A
\* vector that has left [-2, 2] is taken not to come back: the iteration
\* then ends without converging.
UmPasso(g, st) ==
  LET I == 1..number_of_nodes(g)
      xn == PassoPageRank(g, st.x)
      err == Soma([i \in I |-> Abs(xn[i] - st.x[i])], [i \in I |-> i])
  IN  IF \E i \in I : Abs(xn[i]) > 2 * UX
        THEN [fim |-> TRUE, ok |-> FALSE, x |-> xn, k |-> st.k + 1]
      ELSE IF err < number_of_nodes(g) * (UX \div inv_tol)
        THEN [fim |-> TRUE, ok |-> TRUE, x |-> xn, k |-> st.k + 1]
      ELSE [fim |-> FALSE, ok |-> FALSE, x |-> xn, k |-> st.k + 1]

\* At most k more steps from st.
RECURSIVE Passos(_, _, _)
Passos(g, st, k) ==
  IF k = 0 \/ st.fim THEN st ELSE Passos(g, UmPasso(g, st), k - 1)

\* At most b more rounds of 10 steps from st.
RECURSIVE Potencia(_, _, _)
Potencia(g, st, b) ==
  IF b = 0 \/ st.fim THEN st ELSE Potencia(g, Passos(g, st, 10), b - 1)

\* The place of node n in the node order of g.
Indice(g, n) == CHOOSE i \in 1..Len(g.node) : g.node[i] = n

\* nx.pagerank(grafo, alpha=0.85) of a graph that is not empty: whether it
\* converged, the value of each node in units of 1/UX, and the number
\* of steps taken.
pagerank_result(g) ==
  LET N == number_of_nodes(g)
      RECURSIVE Uniforme(_)
      Uniforme(j) == IF j > N THEN <<>> ELSE <<Quociente(UX, N)>> \o Uniforme(j + 1)
      r == Potencia(g, [fim |-> FALSE, ok |-> FALSE, x |-> Uniforme(1), k |-> 0],
                    max_iter \div 10)
  IN  [ok |-> r.ok, x |-> [n \in Nodes(g) |-> r.x[Indice(g, n)]], k |-> r.k]

\* ------------------------------------- identificar_potenciais_espalhadores
\* num_nos_para_centralidades_caras
num_nos_para_centralidades_caras == 2000

\* The default of the parameter top_n, and the values it is called with.
top_n_padrao == 10
TopNs == {0, 1, 2, top_n_padrao}

\* if grafo.number_of_nodes() < num_nos_para_centralidades_caras
centralidades_caras(n) == n < num_nos_para_centralidades_caras

\* The metric maps the function can end up with: each library call returns
\* its map or raises, and a call that raises leaves the map empty.
\* Betweenness and closeness are attempted below the node cap only, and
\* closeness only on a weakly connected graph.
Tentativas(g) ==
  LET pr == pagerank_result(g)
      barato == centralidades_caras(number_of_nodes(g))
      conexo == barato /\ is_weakly_connected(g)
  IN  { [pagerank |-> IF "pagerank" \in ex THEN EmptyMap
                      ELSE [n \in Nodes(g) |-> Quociente((UM \div inv_tol) * pr.x[n],
                                                         UX \div inv_tol)],
         degree_cent |-> IF "degree" \in ex THEN EmptyMap ELSE degree_centrality(g),
         betweenness |-> IF barato /\ "betweenness" \notin ex
                         THEN betweenness_centrality(g) ELSE EmptyMap,
         closeness |-> IF conexo /\ "closeness" \notin ex
                       THEN closeness_centrality(g) ELSE EmptyMap,
         excecoes |-> ex,
         iteracoes |-> pr.k] :
        ex \in { e \in SUBSET {"pagerank", "degree", "betweenness", "closeness"} :
                   /\ ~pr.ok => "pagerank" \in e
                   /\ ~barato => e \cap {"betweenness", "closeness"} = {} } }

\* The calls of the metrics at the head of the function, on a graph that is
\* not empty.
Metricas ==
  /\ pc = "loaded"
  /\ number_of_nodes(grafo) # 0
  /\ \E m \in Tentativas(grafo) :
       /\ pagerank' = m.pagerank
       /\ degree_cent' = m.degree_cent
       /\ betweenness' = m.betweenness
       /\ closeness' = m.closeness
       /\ excecoes' = m.excecoes
       /\ iteracoes' = m.iteracoes
  /\ pc' = "metrics"
  /\ UNCHANGED <<principal, carga, reducao, scores, top_n, top_spreaders, analise>>

\* main's own metric maps (pagerank_scores, degree_centrality_scores,
\* betweenness_centrality_scores, closeness_centrality_scores), computed on
\* the graph that is not empty by the same guarded calls.
MetricasMain ==
  /\ pc = "loaded"
  /\ number_of_nodes(grafo) # 0
  /\ \E m \in Tentativas(grafo) :
       /\ pagerank' = m.pagerank
       /\ degree_cent' = m.degree_cent
       /\ betweenness' = m.betweenness
       /\ closeness' = m.closeness
       /\ excecoes' = m.excecoes
       /\ iteracoes' = m.iteracoes
  /\ pc' = "main_metrics"
  /\ UNCHANGED <<principal, carga, reducao, scores, top_n, top_spreaders, analise>>

\* exportar_gephi's metric maps, set as node attributes of its copy of the
\* graph that is not empty, by the same guarded calls.
MetricasGephi ==
  /\ pc = "loaded"
  /\ number_of_nodes(grafo) # 0
  /\ \E m \in Tentativas(grafo) :
       /\ pagerank' = m.pagerank
       /\ degree_cent' = m.degree_cent
       /\ betweenness' = m.betweenness
       /\ closeness' = m.closeness
       /\ excecoes' = m.excecoes
       /\ iteracoes' = m.iteracoes
  /\ pc' = "gephi"
  /\ UNCHANGED <<principal, carga, reducao, scores, top_n, top_spreaders, analise>>

\* ---------------------------------------------------- analisar_centralidades
Metricas4 == <<"pagerank", "degree", "betweenness", "closeness">>

\* analisar_centralidades: each metric is computed and displayed by
\* exibir_top inside its own try; betweenness and closeness below the node
\* cap only, closeness on a weakly connected graph only. The empty graph
\* displays nothing.
AnalisaCentralidades ==
  /\ pc = "loaded"
  /\ \E m \in IF number_of_nodes(grafo) = 0
              THEN { [pagerank |-> EmptyMap, degree_cent |-> EmptyMap,
                      betweenness |-> EmptyMap, closeness |-> EmptyMap,
                      excecoes |-> {}, iteracoes |-> 0] }
              ELSE Tentativas(grafo) :
       /\ exibidas' = { Metricas4[i] : i \in { j \in 1..4 :
                          <<m.pagerank, m.degree_cent, m.betweenness, m.closeness>>[j]
                            # EmptyMap } }
       /\ excecoes' = m.excecoes
  /\ abortou' = FALSE
  /\ pc' = "centralidades"
  /\ UNCHANGED <<principal, carga, reducao, pagerank, degree_cent, betweenness, closeness, scores,
                 top_n, top_spreaders, iteracoes, analisado, comunidades, deteccao,
                 num_nos, tentadas>>

\* analisar_centralidades as first written: the four metrics are computed
\* and displayed one after the other with no guard and no try, so the first
\* call that raises (falha, 0 when none does) leaves the function with the
\* exception, which nothing catches.
AnalisaCentralidadesInicial ==
  /\ pc = "loaded"
  /\ \E falha \in 0..4 :
       /\ (number_of_nodes(grafo) # 0 /\ ~pagerank_result(grafo).ok) => falha = 1
       /\ exibidas' = { Metricas4[i] : i \in { j \in 1..4 : falha = 0 \/ j < falha } }
       /\ excecoes' = IF falha = 0 THEN {} ELSE { Metricas4[falha] }
       /\ abortou' = (falha # 0)
  /\ pc' = "centralidades_inicial"
  /\ UNCHANGED <<principal, carga, reducao, pagerank, degree_cent, betweenness, closeness, scores,
                 top_n, top_spreaders, iteracoes, analisado, comunidades, deteccao,
                 num_nos, tentadas>>

\* -------------------------------------------------------------- the size guard
\* Node counts of graphs too large to build here: small ones, and those
\* around the cap.
NumNos ==
  (0..30) \cup ((num_nos_para_centralidades_caras - 15)
                  .. (num_nos_para_centralidades_caras + 15))

\* grafo.number_of_nodes() of the graph handed to the metrics.
ContaNos ==
  /\ pc = "load"
  /\ interacoes_processadas = 0
  /\ ~houve_rejeicao /\ ~rejeitada
  /\ \E n \in NumNos : num_nos' = n
  /\ pc' = "counted"
  /\ UNCHANGED <<principal, carga, reducao, ranking, analisado, comunidades, deteccao, exibidas,
                 abortou, tentadas>>

\* The metric calls the code reaches on a graph of num_nos nodes: none on
\* the empty graph, PageRank and degree centrality on any other, betweenness
\* and the closeness block behind the size guard.
AplicaLimite ==
  /\ pc = "counted"
  /\ tentadas' = IF num_nos = 0 THEN {}
                 ELSE {"pagerank", "degree"}
                        \cup (IF centralidades_caras(num_nos)
                              THEN {"betweenness", "closeness"} ELSE {})
  /\ pc' = "guarded"
  /\ UNCHANGED <<principal, carga, reducao, ranking, analisado, comunidades, deteccao, exibidas,
                 abortou, num_nos>>

\* A plausible slip: the sum is always divided by the four metrics.
ScoreSobreQuatro(node, pr, dc, bt, cl) ==
  LET val(m) == IF node \in DOMAIN m THEN m[node] ELSE 0
  IN  [num |-> val(pr) + val(dc) + val(bt) + val(cl), den |-> 4]

\* The body of the scores loop: s / count over the maps that hold the node,
\* 0 when none does. The quotient is kept exact, as num / den.
Score(node, pr, dc, bt, cl) ==
  LET val(m) == IF node \in DOMAIN m THEN m[node] ELSE 0
      tem(m) == IF node \in DOMAIN m THEN 1 ELSE 0
      s == val(pr) + val(dc) + val(bt) + val(cl)
      count == tem(pr) + tem(dc) + tem(bt) + tem(cl)
  IN  IF count > 0 THEN [num |-> s, den |-> count] ELSE [num |-> 0, den |-> 1]

\* The order of two scores.
Maior(a, b) == a.num * b.den > b.num * a.den
Igual(a, b) == a.num * b.den = b.num * a.den

\* A plausible slip: an ascending sort read backwards, which reverses ties.
OrdenadosPorScoreInvertido(ns, sc) ==
  LET n == Len(ns)
      pos(i) == 1 + Cardinality({ j \in 1..n : Maior(sc[ns[j]], sc[ns[i]]) })
                  + Cardinality({ j \in 1..n : j > i /\ Igual(sc[ns[j]], sc[ns[i]]) })
  IN  [k \in 1..n |-> LET i == CHOOSE i \in 1..n : pos(i) = k
                      IN  <<ns[i], sc[ns[i]]>>]

\* sorted(scores.items(), key=lambda x: x[1], reverse=True): the items by
\* decreasing score; the sort is stable, so equal scores keep the order of
\* the dictionary, which is the node order of the graph.
OrdenadosPorScore(ns, sc) ==
  LET n == Len(ns)
      pos(i) == 1 + Cardinality({ j \in 1..n : Maior(sc[ns[j]], sc[ns[i]]) })
                  + Cardinality({ j \in 1..n : j < i /\ Igual(sc[ns[j]], sc[ns[i]]) })
  IN  [k \in 1..n |-> LET i == CHOOSE i \in 1..n : pos(i) = k
                      IN  <<ns[i], sc[ns[i]]>>]

\* node_to_community_id_map: the index (from 0) of the last community of the
\* list that holds the node, for the nodes some community holds.
NodeToCommunityId(com) ==
  [n \in UNION Range(com) |->
     (CHOOSE i \in 1..Len(com) :
        n \in com[i] /\ \A j \in 1..Len(com) : n \in com[j] => j <= i) - 1]

\* A plausible slip: the size of the community is reported, not the number
\* of selected nodes in it.
DistribuicaoPorTamanho(top, com) ==
  LET id == NodeToCommunityId(com)
      ids == { id[top[k][1]] : k \in { j \in 1..Len(top) : top[j][1] \in DOMAIN id } }
  IN  [i \in ids |-> Cardinality(com[i + 1])]

\* The block under "if comunidades:": comunidade_count, the number of top
\* spreaders per community id, for the ids that have one; nothing is counted
\* when the list is empty.
Distribuicao(top, com) ==
  LET id == NodeToCommunityId(com)
      ids == { id[top[k][1]] : k \in { j \in 1..Len(top) : top[j][1] \in DOMAIN id } }
  IN  [i \in ids |->
         Cardinality({ k \in 1..Len(top) : top[k][1] \in DOMAIN id /\ id[top[k][1]] = i })]

\* The scores loop, the selection of the top_n and the distribution of the
\* selected over the communities.
Pontua ==
  /\ pc = "metrics"
  /\ \E k \in TopNs :
       LET sc == [node \in Nodes(grafo) |->
                    Score(node, pagerank, degree_cent, betweenness, closeness)]
       IN  /\ top_n' = k
           /\ scores' = sc
           /\ top_spreaders' = PySlice(OrdenadosPorScore(grafo.node, sc), k)
           /\ comunidade_count' =
                Distribuicao(PySlice(OrdenadosPorScore(grafo.node, sc), k), comunidades)
  /\ pc' = "ranked"
  /\ UNCHANGED <<carga, reducao, pagerank, degree_cent, betweenness, closeness, excecoes,
                 iteracoes, analise, etapas, encerrou, grafo_und, atributos, gexf,
                 exportado, arquivo>>

\* if grafo.number_of_nodes() == 0: return [], {}
EspalhadoresVazio ==
  /\ pc = "loaded"
  /\ number_of_nodes(grafo) = 0
  /\ \E k \in TopNs : top_n' = k
  /\ scores' = EmptyMap
  /\ top_spreaders' = <<>>
  /\ pc' = "ranked"
  /\ UNCHANGED <<principal, carga, reducao, pagerank, degree_cent, betweenness, closeness, excecoes,
               iteracoes, analise>>

\* ------------------------------------------------------ detectar_comunidades
\* grafo.to_undirected(): the same nodes, and an edge {u, v} for every edge
\* u -> v or v -> u; a self-loop is the edge {u}.
ArestasUnd(g) == { {e[1], e[2]} : e \in Edges(g) }

\* The sum over the nodes of the community c of their degrees in the
\* undirected graph (a self-loop counts twice).
GrauDaComunidade(g, c) ==
  Cardinality({ an \in ArestasUnd(g) \X c : an[2] \in an[1] })
    + Cardinality({ a \in ArestasUnd(g) : Cardinality(a) = 1 /\ a \subseteq c })

\* The number of edges between the communities c and d.
ArestasEntre(g, c, d) ==
  Cardinality({ a \in ArestasUnd(g) : a \cap c # {} /\ a \cap d # {} })

\* A plausible slip: the product of the degrees is not scaled by 1 / 2m.
DeltaQSemEscala(g, c, d) ==
  2 * ArestasEntre(g, c, d) - GrauDaComunidade(g, c) * GrauDaComunidade(g, d)

\* The gain of modularity of merging c and d, 2 (e_cd - a_c a_d), in units
\* of 2 / (2m)^2.
DeltaQ(g, c, d) ==
  2 * Cardinality(ArestasUnd(g)) * ArestasEntre(g, c, d)
    - GrauDaComunidade(g, c) * GrauDaComunidade(g, d)

\* A plausible slip: the community deleted is not added to the one kept.
FundeSemUnir(com, u, v) ==
  [k \in 1..(Len(com) - 1) |-> IF k < u THEN com[k] ELSE com[k + 1]]

\* communities[v] = communities[u] | communities[v]; del communities[u], on
\* the communities in the order of the dictionary.
Funde(com, u, v) ==
  LET junta == [com EXCEPT ![v] = com[u] \cup com[v]]
  IN  [k \in 1..(Len(com) - 1) |-> IF k < u THEN junta[k] ELSE junta[k + 1]]

\* One round of the merging loop from the communities com: where it stops
\* (fim) and what it merges into (prox). While there is more than one
\* community and two of them are joined by an edge, the pair of largest gain
\* is merged, unless the gain is negative. The gains are floats: pairs of
\* the same exact gain are merged in either order, and a gain of exactly 0
\* can come out on either side of 0.
Rodada(g, com) ==
  LET pares == { uv \in (1..Len(com)) \X (1..Len(com)) :
                   uv[1] # uv[2] /\ ArestasEntre(g, com[uv[1]], com[uv[2]]) > 0 }
      dq == [uv \in pares |-> DeltaQ(g, com[uv[1]], com[uv[2]])]
      melhores == { uv \in pares : \A xy \in pares : dq[xy] <= dq[uv] }
      para == Len(com) <= 1 \/ pares = {} \/ \E uv \in melhores : dq[uv] <= 0
      segue == Len(com) > 1 /\ pares # {} /\ \A uv \in melhores : dq[uv] >= 0
  IN  [fim |-> IF para THEN {com} ELSE {},
       prox |-> IF segue THEN { Funde(com, uv[1], uv[2]) : uv \in melhores } ELSE {}]

\* The lists the merging loop can end with from one of the lists of frente.
RECURSIVE Guloso(_, _)
Guloso(g, frente) ==
  IF frente = {} THEN {}
  ELSE LET r == [com \in frente |-> Rodada(g, com)]
       IN  UNION { r[com].fim : com \in frente }
             \cup Guloso(g, UNION { r[com].prox : com \in frente })

\* A plausible slip: reverse=True is left out, and the smaller come first.
OrdenadasPorTamanhoCrescente(com) ==
  LET n == Len(com)
      pos(i) == 1 + Cardinality({ j \in 1..n : Cardinality(com[j]) < Cardinality(com[i]) })
                  + Cardinality({ j \in 1..n : j < i /\ Cardinality(com[j]) = Cardinality(com[i]) })
  IN  [k \in 1..n |-> com[CHOOSE i \in 1..n : pos(i) = k]]

\* sorted(comunidades, key=len, reverse=True): the larger first, those of
\* one size in the order they had.
OrdenadasPorTamanho(com) ==
  LET n == Len(com)
      pos(i) == 1 + Cardinality({ j \in 1..n : Cardinality(com[j]) > Cardinality(com[i]) })
                  + Cardinality({ j \in 1..n : j < i /\ Cardinality(com[j]) = Cardinality(com[i]) })
  IN  [k \in 1..n |-> com[CHOOSE i \in 1..n : pos(i) = k]]

\* greedy_modularity_communities(grafo_und): one community per node when
\* the graph has no edge, and the outcome of the merging loop otherwise.
greedy_modularity_communities(g) ==
  LET sozinhos == [k \in 1..Len(g.node) |-> {g.node[k]}]
  IN  IF ArestasUnd(g) = {} THEN {sozinhos}
      ELSE { OrdenadasPorTamanho(com) : com \in Guloso(g, {sozinhos}) }

\* A plausible slip: the graph is taken for empty when it has no edge.
detectar_comunidades_sem_arestas(g) ==
  IF number_of_edges(g) = 0 THEN { [fim |-> "vazio", comunidades |-> <<>>] }
  ELSE { [fim |-> "ok", comunidades |-> OrdenadasPorTamanho(com)] :
           com \in greedy_modularity_communities(g) }
         \cup { [fim |-> "erro", comunidades |-> <<>>] }

\* A plausible slip: when the library call raises, every node is put in one
\* community.
detectar_comunidades_com_reserva(g) ==
  IF number_of_nodes(g) = 0 THEN { [fim |-> "vazio", comunidades |-> <<>>] }
  ELSE { [fim |-> "ok", comunidades |-> OrdenadasPorTamanho(com)] :
           com \in greedy_modularity_communities(g) }
         \cup { [fim |-> "erro", comunidades |-> <<Nodes(g)>>] }

\* detectar_comunidades(g): [] for the empty graph; the communities, larger
\* first, when the library call returns; [] when it raises.
detectar_comunidades(g) ==
  IF number_of_nodes(g) = 0 THEN { [fim |-> "vazio", comunidades |-> <<>>] }
  ELSE { [fim |-> "ok", comunidades |-> OrdenadasPorTamanho(com)] :
           com \in greedy_modularity_communities(g) }
         \cup { [fim |-> "erro", comunidades |-> <<>>] }

\* A plausible slip: the two weights of a pair joined both ways are added.
to_undirected_soma(g) ==
  LET peso(u, v) ==
        (IF v \in DOMAIN g.succ[u] THEN g.succ[u][v] ELSE 0)
          + (IF u # v /\ u \in DOMAIN g.succ[v] THEN g.succ[v][u] ELSE 0)
  IN  [node |-> g.node,
       adj |-> [u \in Nodes(g) |->
                  [v \in DOMAIN g.succ[u] \cup DOMAIN g.pred[u] |-> peso(u, v)]]]

\* grafo.to_undirected() with its edge data: the nodes in the same order, and
\* every edge u -> v added as {u, v} in the order of the sources; the data of
\* an edge added twice is updated, so a pair joined both ways keeps the
\* weight of the edge whose source comes later in the node order.
to_undirected(g) ==
  LET peso(u, v) ==
        IF v \in DOMAIN g.succ[u] /\ u \in DOMAIN g.succ[v]
        THEN IF Indice(g, u) >= Indice(g, v) THEN g.succ[u][v] ELSE g.succ[v][u]
        ELSE IF v \in DOMAIN g.succ[u] THEN g.succ[u][v] ELSE g.succ[v][u]
  IN  [node |-> g.node,
       adj |-> [u \in Nodes(g) |->
                  [v \in DOMAIN g.succ[u] \cup DOMAIN g.pred[u] |-> peso(u, v)]]]

\* The graph main hands to the analysis: the loaded graph, or the reduced
\* one once gerar_subgrafo_reduzido has returned it.
grafo_para_analise == IF pc = "reduced" THEN subgrafo ELSE grafo

\* comunidades = detectar_comunidades(grafo_para_analise)
Detecta ==
  /\ pc \in {"loaded", "reduced"}
  /\ pc = "reduced" => saida # "ValueError"
  /\ deteccao = ""
  /\ analisado' = grafo_para_analise
  /\ grafo_und' = IF number_of_nodes(grafo_para_analise) = 0 THEN grafo_und
                  ELSE to_undirected(grafo_para_analise)
  /\ \E r \in detectar_comunidades(grafo_para_analise) :
       /\ comunidades' = r.comunidades
       /\ deteccao' = r.fim
  /\ UNCHANGED <<pc, carga, reducao, ranking, exibidas, abortou, num_nos, tentadas,
                 etapas, encerrou, comunidade_count, atributos, gexf, exportado, arquivo>>

\* ------------------------------------------------------------ exportar_gephi
\* A plausible slip: a node the values do not hold gets the attribute with 0.
set_node_attributes_com_zero(bags, values, name) ==
  [n \in DOMAIN bags |->
     Put(bags[n], name, IF n \in DOMAIN values THEN values[n] ELSE 0)]

\* nx.set_node_attributes(G, values, name): the attribute is set on the nodes
\* the values hold, and on no other.
set_node_attributes(bags, values, name) ==
  [n \in DOMAIN bags |->
     IF n \in DOMAIN values THEN Put(bags[n], name, values[n]) ELSE bags[n]]

\* A plausible slip: the attributes are written on the graph itself.
grafo_para_exportar_sem_copia == "original"

\* grafo_para_exportar = grafo.copy(): the graph the attributes are written
\* on is the copy.
grafo_para_exportar == "copia"

\* The outcomes of exportar_gephi(g, com) on a graph that is not empty: the
\* attributes of the nodes of the copy, the metric maps it computed, and how
\* the writing of the file ended.
exportar_gephi(g, com) ==
  { LET b0 == [n \in Nodes(g) |-> EmptyMap]
        b1 == set_node_attributes(b0, m.pagerank, "pagerank")
        b2 == set_node_attributes(b1, m.degree_cent, "degree_centrality")
        b3 == set_node_attributes(b2, m.betweenness, "betweenness_centrality")
        b4 == set_node_attributes(b3, m.closeness, "closeness_centrality")
        b5 == set_node_attributes(b4, [n \in Nodes(g) |-> in_degree(g, n)], "in_degree")
        b6 == set_node_attributes(b5, [n \in Nodes(g) |-> out_degree(g, n)], "out_degree")
        b7 == set_node_attributes(b6, [n \in Nodes(g) |-> degree(g, n)], "degree")
        id == NodeToCommunityId(com)
        node_to_community_id == [n \in DOMAIN id \cap Nodes(g) |-> id[n]]
        b8 == IF Len(com) > 0
              THEN set_node_attributes(b7, node_to_community_id, "community_id")
              ELSE b7
    IN  [atributos |-> b8, metricas |-> m, gexf |-> w] :
      m \in Tentativas(g), w \in {"escrito", "falhou"} }

\* A call of exportar_gephi on the loaded graph or on the reduced one, with
\* the list detectar_comunidades returned.
Exporta ==
  /\ pc \in {"loaded", "reduced"}
  /\ pc = "reduced" => saida # "ValueError"
  /\ deteccao # ""
  /\ gexf = ""
  /\ \E g \in {grafo} \cup (IF pc = "reduced" THEN {subgrafo} ELSE {}) :
       /\ number_of_nodes(g) # 0
       /\ exportado' = g
       /\ \E r \in exportar_gephi(g, comunidades) :
            /\ atributos' = [atributos EXCEPT ![grafo_para_exportar] = r.atributos]
            /\ gexf' = r.gexf
            /\ pagerank' = r.metricas.pagerank
            /\ degree_cent' = r.metricas.degree_cent
            /\ betweenness' = r.metricas.betweenness
            /\ closeness' = r.metricas.closeness
            /\ excecoes' = r.metricas.excecoes
            /\ iteracoes' = r.metricas.iteracoes
  /\ UNCHANGED <<pc, carga, reducao, scores, top_n, top_spreaders, analise, etapas,
                 encerrou, grafo_und, comunidade_count, arquivo>>

\* if grafo.number_of_nodes() == 0: return
ExportaVazio ==
  /\ pc = "loaded"
  /\ deteccao # ""
  /\ gexf = ""
  /\ number_of_nodes(grafo) = 0
  /\ gexf' = "nada"
  /\ UNCHANGED <<pc, carga, reducao, ranking, analise, etapas, encerrou, grafo_und,
                 comunidade_count, atributos, exportado, arquivo>>

\* ---------------------------------------------------------------------- main
\* A plausible slip: main goes on with an empty graph.
grafo_vazio_ignorado(g) == FALSE

\* if grafo.number_of_nodes() == 0
grafo_vazio(g) == number_of_nodes(g) = 0

\* The ways main ends with sys.exit(1), by the message it prints.
Erros == {"caminho ausente", "arquivo nao encontrado", "grafo vazio", "subgrafo vazio"}

\* The functions main calls after carregar_grafo and the reduction.
Posteriores ==
  {"mostrar_estatisticas", "analisar_centralidades", "detectar_comunidades",
   "identificar_potenciais_espalhadores", "analisar_metricas_adicionais",
   "visualizacoes", "exportar_gephi"}

\* Neither the path of the script nor the one typed in exists: sys.exit(1)
\* before carregar_grafo is called.
CaminhoAusente ==
  /\ pc = "load"
  /\ interacoes_processadas = 0 /\ ~houve_rejeicao /\ ~rejeitada
  /\ etapas = {}
  /\ encerrou' = "caminho ausente"
  /\ pc' = "exit"
  /\ UNCHANGED <<carga, reducao, ranking, analise, etapas, grafo_und, comunidade_count,
                 atributos, gexf, exportado, arquivo>>

\* carregar_grafo: open raises FileNotFoundError, sys.exit(1).
ArquivoNaoEncontrado ==
  /\ pc = "load"
  /\ interacoes_processadas = 0 /\ ~houve_rejeicao /\ ~rejeitada
  /\ etapas = {}
  /\ etapas' = {"carregar_grafo"}
  /\ encerrou' = "arquivo nao encontrado"
  /\ pc' = "exit"
  /\ UNCHANGED <<carga, reducao, ranking, analise, grafo_und, comunidade_count,
                 atributos, gexf, exportado, arquivo>>

\* main after carregar_grafo returned an empty graph: sys.exit(1).
MainVazio ==
  /\ pc = "loaded"
  /\ etapas = {}
  /\ deteccao = ""
  /\ grafo_vazio(grafo)
  /\ etapas' = {"carregar_grafo"}
  /\ encerrou' = "grafo vazio"
  /\ pc' = "exit"
  /\ UNCHANGED <<carga, reducao, ranking, analise, grafo_und, comunidade_count,
                 atributos, gexf, exportado, arquivo>>

\* main of the heavy revision after carregar_grafo returned a graph that is
\* not empty: the reduction by degree, and sys.exit(1) if what it returns is
\* empty.
MainReduz ==
  /\ pc = "loaded"
  /\ etapas = {}
  /\ deteccao = ""
  /\ ~grafo_vazio(grafo)
  /\ \E t \in Tamanhos :
       \E r \in gerar_subgrafo_reduzido(grafo, t, "grau") :
         /\ tamanho' = t
         /\ metodo' = "grau"
         /\ nos_selecionados' = r.sel
         /\ subgrafo' = r.g
         /\ saida' = r.saida
         /\ encerrou' = IF grafo_vazio(r.g) THEN "subgrafo vazio" ELSE ""
         /\ pc' = IF grafo_vazio(r.g) THEN "exit" ELSE "main_reduced"
  /\ etapas' = {"carregar_grafo", "gerar_subgrafo_reduzido"}
  /\ UNCHANGED <<carga, ranking, analise, grafo_und, comunidade_count, atributos, gexf,
                 exportado, arquivo>>

\* mostrar_estatisticas and analisar_centralidades, which only print, on the
\* graph to analyse: the loaded graph, or the reduced one in the heavy
\* revision.
MainEstatisticas ==
  /\ \/ pc = "loaded" /\ etapas = {} /\ deteccao = "" /\ saida = "" /\ ~grafo_vazio(grafo)
     \/ pc = "main_reduced"
  /\ analisado' = IF pc = "main_reduced" THEN subgrafo ELSE grafo
  /\ etapas' = etapas \cup {"carregar_grafo", "mostrar_estatisticas", "analisar_centralidades"}
  /\ pc' = "main_stats"
  /\ UNCHANGED <<carga, reducao, ranking, comunidades, deteccao, exibidas, abortou,
                 num_nos, tentadas, encerrou, grafo_und, comunidade_count, atributos,
                 gexf, exportado, arquivo>>

\* comunidades = detectar_comunidades(grafo)
MainDetecta ==
  /\ pc = "main_stats"
  /\ grafo_und' = to_undirected(analisado)
  /\ \E r \in detectar_comunidades(analisado) :
       /\ comunidades' = r.comunidades
       /\ deteccao' = r.fim
  /\ etapas' = etapas \cup {"detectar_comunidades"}
  /\ pc' = "main_detected"
  /\ UNCHANGED <<carga, reducao, ranking, analisado, exibidas, abortou, num_nos, tentadas,
                 encerrou, comunidade_count, atributos, gexf, exportado, arquivo>>

\* top_spreaders, combined_scores =
\*   identificar_potenciais_espalhadores(grafo, comunidades)
\* with the default top_n, and analisar_metricas_adicionais, which only
\* prints. (main's own metric maps, computed before the call, are used by
\* the pictures alone.)
MainIdentifica ==
  /\ pc = "main_detected"
  /\ \E m \in Tentativas(analisado) :
       LET sc == [node \in Nodes(analisado) |->
                    Score(node, m.pagerank, m.degree_cent, m.betweenness, m.closeness)]
           top == PySlice(OrdenadosPorScore(analisado.node, sc), top_n_padrao)
       IN  /\ pagerank' = m.pagerank
           /\ degree_cent' = m.degree_cent
           /\ betweenness' = m.betweenness
           /\ closeness' = m.closeness
           /\ excecoes' = m.excecoes
           /\ iteracoes' = m.iteracoes
           /\ top_n' = top_n_padrao
           /\ scores' = sc
           /\ top_spreaders' = top
           /\ comunidade_count' = Distribuicao(top, comunidades)
  /\ etapas' = etapas \cup {"identificar_potenciais_espalhadores",
                            "analisar_metricas_adicionais"}
  /\ pc' = "main_ranked"
  /\ UNCHANGED <<carga, reducao, analise, encerrou, grafo_und, atributos, gexf,
                 exportado, arquivo>>

\* The pictures, each of which catches its own exceptions, then
\* exportar_gephi(grafo, comunidades_detectadas=comunidades, ...) and the
\* end of main.
MainExporta ==
  /\ pc = "main_ranked"
  /\ exportado' = analisado
  /\ \E r \in exportar_gephi(analisado, comunidades) :
       /\ atributos' = [atributos EXCEPT ![grafo_para_exportar] = r.atributos]
       /\ gexf' = r.gexf
       /\ pagerank' = r.metricas.pagerank
       /\ degree_cent' = r.metricas.degree_cent
       /\ betweenness' = r.metricas.betweenness
       /\ closeness' = r.metricas.closeness
       /\ excecoes' = r.metricas.excecoes
       /\ iteracoes' = r.metricas.iteracoes
  /\ etapas' = etapas \cup {"visualizacoes", "exportar_gephi"}
  /\ encerrou' = "fim"
  /\ pc' = "done"
  /\ UNCHANGED <<carga, reducao, scores, top_n, top_spreaders, analise, grafo_und,
                 comunidade_count, arquivo>>

\* ------------------------------------------------------ carregar_grafo claims

\* C1: after any sequence of records the graph holds exactly one edge per
\* accepted ordered pair, the edge's weight is the weight written on the LAST
\* accepted record of the pair (1 for a two-token record), and the edge count
\* is the number of distinct accepted pairs: re-inserting a pair neither adds
\* an edge nor adds the weights up.
C1_LastWriteWins ==
  /\ Edges(grafo) = DOMAIN aceitos
  /\ \A e \in DOMAIN aceitos : Weight(grafo, e[1], e[2]) = aceitos[e]
  /\ number_of_edges(grafo) = Cardinality(DOMAIN aceitos)

\* A pair was accepted twice, with two different weights.
C1_Witness ==
  /\ pc = "load"
  /\ \E e \in DOMAIN primeiro : primeiro[e] # aceitos[e]
  /\ interacoes_processadas > number_of_edges(grafo)

\* C2: the loader rejects exactly the malformed records (fewer than 2 tokens,
\* or a third token that is no integer), and the step that reads one changes
\* neither the nodes, nor the edges, nor the processed count, and leaves the
\* loop running.
C2_RejectedNoEffect ==
  /\ [](pc = "load" => (rejeitada <=> aviso # ""))
  /\ [][(pc = "load" /\ rejeitada')
          => /\ grafo' = grafo
             /\ interacoes_processadas' = interacoes_processadas
             /\ pc' = "load"]_vars

\* A line with source, target and a non-integer weight was rejected while
\* the graph was still empty: both its endpoints were new.
C2_Witness ==
  /\ pc = "load"
  /\ rejeitada
  /\ aviso = "erro de valor"
  /\ grafo = DiGraph

\* C3 (as claimed): every edge of the graph has a positive weight.
C3_PositiveWeights ==
  \A e \in Edges(grafo) : Weight(grafo, e[1], e[2]) > 0

\* C4: the node set is the set of endpoints of the accepted records, each
\* node once; succ and pred index the same edges, which are the accepted
\* pairs; degree(n) is the number of accepted pairs leaving n plus the number
\* entering n.
C4_NodesAndAdjacency ==
  LET pares == DOMAIN aceitos
  IN  /\ Nodes(grafo) = { e[1] : e \in pares } \cup { e[2] : e \in pares }
      /\ Cardinality(Nodes(grafo)) = number_of_nodes(grafo)
      /\ DOMAIN grafo.succ = Nodes(grafo)
      /\ DOMAIN grafo.pred = Nodes(grafo)
      /\ \A u \in Nodes(grafo), v \in Nodes(grafo) :
           /\ (v \in DOMAIN grafo.succ[u]) = (u \in DOMAIN grafo.pred[v])
           /\ (v \in DOMAIN grafo.succ[u]) = (<<u, v>> \in pares)
           /\ v \in DOMAIN grafo.succ[u] => grafo.succ[u][v] = grafo.pred[v][u]
      /\ \A n \in Nodes(grafo) :
           degree(grafo, n) = Cardinality({ e \in pares : e[1] = n })
                              + Cardinality({ e \in pares : e[2] = n })

\* Three nodes, a self-loop and two more edges.
C4_Witness ==
  /\ number_of_nodes(grafo) = 3
  /\ number_of_edges(grafo) = 3
  /\ \E n \in Nodes(grafo) : n \in DOMAIN grafo.succ[n]

\* ---------------------------------------------- gerar_subgrafo_reduzido claims
Retornou == pc = "reduced" /\ saida # "ValueError"

\* C5 (as claimed): with metodo = 'grau' and more than tamanho nodes, the
\* result has exactly min(tamanho, node count) nodes and every selected node
\* has a degree >= that of every node left out.
C5_DegreeSelection ==
  (pc = "reduced" /\ metodo = "grau" /\ number_of_nodes(grafo) > tamanho)
    => /\ Retornou
       /\ number_of_nodes(subgrafo) = Min(tamanho, number_of_nodes(grafo))
       /\ \A n \in Nodes(subgrafo), o \in Nodes(grafo) \ Nodes(subgrafo) :
            degree(grafo, n) >= degree(grafo, o)

\* C5, for the sizes the reducer's contract allows (tamanho >= 1): holds.
C5_DegreeSelectionPositive ==
  tamanho >= 1 => C5_DegreeSelection

C7_RejectsNonPositive ==
  (pc = "reduced" /\ tamanho <= 0 /\ number_of_nodes(grafo) > 0) => ~Retornou

\* C8: on a graph with at most tamanho nodes (the empty graph included) the
\* result is a copy with the same nodes, edges and weights, whatever the method.
C8_SmallGraphCopied ==
  (pc = "reduced" /\ number_of_nodes(grafo) <= tamanho)
    => /\ Retornou
       /\ saida \in {"copia_vazia", "copia"}
       /\ subgrafo = grafo

\* A three-node graph with a weighted edge, reduced to three nodes by a
\* method other than 'grau'.
C8_Witness ==
  /\ pc = "reduced"
  /\ metodo = "outro"
  /\ tamanho = 3
  /\ number_of_nodes(grafo) = 3
  /\ \E e \in Edges(grafo) : Weight(grafo, e[1], e[2]) = 2

\* ------------------------------- identificar_potenciais_espalhadores claims

\* C9: when the function has returned, the score map has an entry for every
\* node of the graph, and a node's score is the sum of its values in the
\* metric maps that contain it divided by the number of those maps (a map
\* that lacks the node adds neither a zero nor to the divisor); a node that
\* no map contains scores 0.
C9_CompositeScore ==
  pc = "ranked" =>
    /\ DOMAIN scores = Nodes(grafo)
    /\ \A n \in Nodes(grafo) :
         LET mapas == <<pagerank, degree_cent, betweenness, closeness>>
             tem == { i \in 1..4 : n \in DOMAIN mapas[i] }
             soma == Soma([i \in 1..4 |-> IF i \in tem THEN mapas[i][n] ELSE 0],
                          <<1, 2, 3, 4>>)
         IN  IF tem = {} THEN scores[n].num = 0
             ELSE /\ scores[n].den > 0
                  /\ scores[n].num * Cardinality(tem) = soma * scores[n].den

\* A node of positive degree that only the degree centrality map contains
\* was scored, and its score is its degree centrality.
C9_Witness ==
  /\ pc = "ranked"
  /\ pagerank = EmptyMap /\ betweenness = EmptyMap /\ closeness = EmptyMap
  /\ \E n \in Nodes(grafo) :
       /\ n \in DOMAIN degree_cent
       /\ degree_cent[n] > 0
       /\ scores[n].num = degree_cent[n] * scores[n].den

\* C10: when the function has returned, the list holds min(top_n, node count)
\* distinct nodes of the graph, each with its score; a node comes before
\* another in the list, and a listed node is chosen over an unlisted one,
\* only if its score is higher, or equal and it comes first in the node
\* order of the graph. The list is therefore fixed by the graph and the
\* scores.
C10_TopN ==
  pc = "ranked" =>
    LET L == Len(top_spreaders)
        no(i) == top_spreaders[i][1]
        devolvidos == { no(i) : i \in 1..L }
        lugar(v) == CHOOSE i \in 1..Len(grafo.node) : grafo.node[i] = v
        menor(a, b) == scores[a].num * scores[b].den < scores[b].num * scores[a].den
        antes(a, b) == /\ ~menor(a, b)
                       /\ menor(b, a) \/ lugar(a) < lugar(b)
    IN  /\ L = Min(top_n, number_of_nodes(grafo))
        /\ devolvidos \subseteq Nodes(grafo)
        /\ Cardinality(devolvidos) = L
        /\ \A i \in 1..L : top_spreaders[i][2] = scores[no(i)]
        /\ \A i, j \in 1..L : i < j => antes(no(i), no(j))
        /\ \A a \in devolvidos : \A b \in Nodes(grafo) \ devolvidos : antes(a, b)

\* With every metric computed, two of three nodes were returned: the first
\* of the list is not the first node of the graph and scores more than the
\* second, and the second ties with the node left out.
C10_Witness ==
  /\ pc = "ranked"
  /\ excecoes = {}
  /\ number_of_nodes(grafo) = 3
  /\ top_n = 2
  /\ Len(top_spreaders) = 2
  /\ top_spreaders[1][1] # grafo.node[1]
  /\ Maior(top_spreaders[1][2], top_spreaders[2][2])
  /\ \E b \in Nodes(grafo) \ {top_spreaders[1][1], top_spreaders[2][1]} :
       Igual(scores[b], top_spreaders[2][2])

\* --------------------------------------------------- detectar_comunidades claims

\* The nodes of the communities returned.
NosDasComunidades == UNION Range(comunidades)

\* C11: when detection has succeeded on a graph that is not empty, the
\* communities returned are a partition of its nodes: none is empty, no two
\* share a node, and every node is in one of them; a node with no incident
\* edge is a community of its own.
C11_Partition ==
  (deteccao = "ok" /\ number_of_nodes(analisado) # 0) =>
    /\ \A i \in 1..Len(comunidades) : comunidades[i] # {}
    /\ \A i, j \in 1..Len(comunidades) :
         i # j => comunidades[i] \cap comunidades[j] = {}
    /\ NosDasComunidades = Nodes(analisado)
    /\ \A n \in Nodes(analisado) :
         (DOMAIN analisado.succ[n] \cup DOMAIN analisado.pred[n] = {})
           => \E i \in 1..Len(comunidades) : comunidades[i] = {n}

\* Detection succeeded on a reduced graph of three nodes, one of them with
\* no incident edge, and merged the other two.
C11_Witness ==
  /\ deteccao = "ok"
  /\ pc = "reduced"
  /\ number_of_nodes(analisado) = 3
  /\ Len(comunidades) = 2
  /\ \E n \in Nodes(analisado) : DOMAIN analisado.succ[n] \cup DOMAIN analisado.pred[n] = {}

\* The modularity of the communities of the sequence com in the undirected
\* projection of g, in units of 1 / (2m)^2: the sum over the communities of
\* 4m (edges inside) - (sum of degrees)^2.
Modularidade(g, com) ==
  LET dentro(c) == Cardinality({ a \in ArestasUnd(g) : a \subseteq c })
      parcela == [i \in 1..Len(com) |->
                    4 * Cardinality(ArestasUnd(g)) * dentro(com[i])
                      - GrauDaComunidade(g, com[i]) * GrauDaComunidade(g, com[i])]
  IN  Soma(parcela, [i \in 1..Len(com) |-> i])

\* The undirected projection of g is the two cliques on K1 and K2, with no
\* edge between them.
DoisCliques(g, K1, K2) ==
  /\ Cardinality(K1) = 4 /\ Cardinality(K2) = 4
  /\ K1 \cap K2 = {} /\ K1 \cup K2 = Nodes(g)
  /\ ArestasUnd(g) = ({ {u, v} : u, v \in K1 } \cup { {u, v} : u, v \in K2 })
                       \ { {u} : u \in Nodes(g) }

\* C12: when detection has succeeded on a graph whose undirected projection
\* is two cliques of four nodes with no edge between them, there are two
\* communities, the two cliques, and the modularity of this partition is
\* greater than that of one community per node.
C12_TwoCliques ==
  deteccao = "ok" =>
    \A K1, K2 \in SUBSET Nodes(analisado) :
      DoisCliques(analisado, K1, K2) =>
        /\ Len(comunidades) = 2
        /\ Range(comunidades) = {K1, K2}
        /\ Modularidade(analisado, comunidades)
             > Modularidade(analisado, [k \in 1..Len(analisado.node) |-> {analisado.node[k]}])

\* Detection succeeded on two cliques in which some pair is written both
\* ways and some pair one way only.
C12_Witness ==
  /\ deteccao = "ok"
  /\ \E K1, K2 \in SUBSET Nodes(analisado) : DoisCliques(analisado, K1, K2)
  /\ \E e \in Edges(analisado) : <<e[2], e[1]>> \in Edges(analisado)
  /\ \E e \in Edges(analisado) : <<e[2], e[1]>> \notin Edges(analisado)
  /\ Len(comunidades) = 2

\* C13: on the empty graph the function returns the empty list, and when
\* detection has succeeded on a graph that has nodes and no edge it returns
\* one community per node, holding that node alone.
C13_EdgeCases ==
  /\ (deteccao # "" /\ number_of_nodes(analisado) = 0) => comunidades = <<>>
  /\ (deteccao \in {"ok", "vazio"} /\ number_of_nodes(analisado) # 0
        /\ Edges(analisado) = {})
       => /\ Len(comunidades) = number_of_nodes(analisado)
          /\ Range(comunidades) = { {n} : n \in Nodes(analisado) }

\* Detection succeeded on a reduced graph of three nodes and no edge.
C13_Witness ==
  /\ deteccao = "ok"
  /\ pc = "reduced"
  /\ number_of_nodes(analisado) = 3
  /\ Edges(analisado) = {}
  /\ number_of_edges(grafo) > 0
  /\ Len(comunidades) = 3

\* ------------------------------------------------------------ metric claims

\* The graph g, which has nodes, is connected when the direction of its
\* edges is forgotten: no part of its nodes is cut off from the rest.
FracamenteConexo(g) ==
  \A P \in SUBSET Nodes(g) :
    (P # {} /\ P # Nodes(g)) =>
      \E e \in Edges(g) : (e[1] \in P) # (e[2] \in P)

\* C14: once the metrics of identificar_potenciais_espalhadores or of main
\* are computed, the closeness map is empty on a graph that is not weakly
\* connected and covers every node otherwise when it is not empty; a score
\* computed with an empty closeness map is the mean of the values of the
\* other maps that hold the node.
C14_ClosenessAllOrNothing ==
  pc \in {"metrics", "main_metrics", "ranked"} /\ number_of_nodes(grafo) # 0 =>
    /\ ~FracamenteConexo(grafo) => closeness = EmptyMap
    /\ closeness # EmptyMap => DOMAIN closeness = Nodes(grafo)
    /\ (pc = "ranked" /\ closeness = EmptyMap) =>
         \A n \in Nodes(grafo) :
           LET outros == <<pagerank, degree_cent, betweenness>>
               tem == { i \in 1..3 : n \in DOMAIN outros[i] }
               soma == Soma([i \in 1..3 |-> IF i \in tem THEN outros[i][n] ELSE 0],
                            <<1, 2, 3>>)
           IN  scores[n].num * Max(Cardinality(tem), 1) = soma * scores[n].den

\* A graph of three nodes that is not weakly connected was ranked with no
\* call raising: closeness is empty and the other three maps are not.
C14_Witness ==
  /\ pc = "ranked"
  /\ excecoes = {}
  /\ number_of_nodes(grafo) = 3
  /\ ~FracamenteConexo(grafo)
  /\ closeness = EmptyMap
  /\ pagerank # EmptyMap /\ degree_cent # EmptyMap /\ betweenness # EmptyMap
  /\ \E n \in Nodes(grafo) : scores[n].den = 3 /\ scores[n].num > 0

\* The metrics the place at pc has computed and used.
Computadas ==
  IF pc \in {"centralidades", "centralidades_inicial"} THEN exibidas
  ELSE { Metricas4[i] : i \in { j \in 1..4 :
           <<pagerank, degree_cent, betweenness, closeness>>[j] # EmptyMap } }

\* The metrics that had to be computed: those whose call did not raise, and
\* closeness only on a weakly connected graph.
Devidas ==
  { m \in Range(Metricas4) \ excecoes : m = "closeness" => FracamenteConexo(grafo) }

\* C15: wherever the four metrics are computed on a graph that is not
\* empty, no exception leaves the place, and every metric whose own call
\* did not raise and whose own precondition holds is computed and used,
\* whatever happened to the other three.
C15_MetricIsolation ==
  (pc \in {"metrics", "main_metrics", "gephi", "centralidades", "centralidades_inicial"}
     /\ number_of_nodes(grafo) # 0)
    => ~abortou /\ Devidas \subseteq Computadas

\* The same, for the places of the later revisions only.
C15_MetricIsolationRevised ==
  (pc \in {"metrics", "main_metrics", "gephi", "centralidades"}
     /\ number_of_nodes(grafo) # 0)
    => ~abortou /\ Devidas \subseteq Computadas

\* C16: on a graph that is not empty PageRank and degree centrality are
\* always attempted, and betweenness and closeness are attempted exactly
\* when the node count is not above the cap (the cap itself included).
C16_SizeCap ==
  (pc = "guarded" /\ num_nos > 0) =>
    /\ {"pagerank", "degree"} \subseteq tentadas
    /\ ({"betweenness", "closeness"} \subseteq tentadas)
         <=> (num_nos <= num_nos_para_centralidades_caras)
    /\ ({"betweenness", "closeness"} \cap tentadas = {})
         <=> (num_nos > num_nos_para_centralidades_caras)

\* The same away from the cap itself, where the code's test and the claim's
\* agree.
C16_SizeCapOffCap ==
  (pc = "guarded" /\ num_nos > 0 /\ num_nos # num_nos_para_centralidades_caras) =>
    /\ {"pagerank", "degree"} \subseteq tentadas
    /\ ({"betweenness", "closeness"} \subseteq tentadas)
         <=> (num_nos <= num_nos_para_centralidades_caras)

\* The edges of g that leave n plus those that enter it.
GrauTotal(g, n) ==
  Cardinality({ e \in Edges(g) : e[1] = n }) + Cardinality({ e \in Edges(g) : e[2] = n })

\* g is a star: every edge goes from a leaf to the centre c, and every other
\* node is a leaf.
Estrela(g, c) ==
  /\ c \in Nodes(g)
  /\ number_of_nodes(g) > 1
  /\ Edges(g) = { <<n, c>> : n \in Nodes(g) \ {c} }

\* C17: when the degree-centrality call did not raise, the value of a node
\* of a graph of more than one node is (in-degree + out-degree) / (n - 1),
\* the map of a graph of at most one node is empty, and in a star of k
\* leaves the centre has 1 and each leaf 1/k.
C17_DegreeCentrality ==
  (pc \in {"metrics", "main_metrics"} /\ "degree" \notin excecoes) =>
    /\ number_of_nodes(grafo) > 1 =>
         /\ DOMAIN degree_cent = Nodes(grafo)
         /\ \A n \in Nodes(grafo) :
              degree_cent[n] * (number_of_nodes(grafo) - 1) = GrauTotal(grafo, n) * UM
    /\ number_of_nodes(grafo) <= 1 => degree_cent = EmptyMap
    /\ \A c \in Nodes(grafo) :
         Estrela(grafo, c) =>
           /\ degree_cent[c] = UM
           /\ \A n \in Nodes(grafo) \ {c} :
                degree_cent[n] * (number_of_nodes(grafo) - 1) = UM

\* The same on graphs of more than one node.
C17_DegreeCentralityManyNodes ==
  (pc \in {"metrics", "main_metrics"} /\ "degree" \notin excecoes
     /\ number_of_nodes(grafo) > 1) => C17_DegreeCentrality

\* C18: the power iteration never runs more than max_iter steps, and the
\* PageRank values it returns for a graph that is not empty, dangling nodes
\* or not, add up to 1 within the tolerance of 1e-6.
C18_PageRankSum ==
  /\ iteracoes <= max_iter
  /\ (pc \in {"metrics", "main_metrics"} /\ "pagerank" \notin excecoes) =>
       /\ DOMAIN pagerank = Nodes(grafo)
       /\ Abs(Soma(pagerank, grafo.node) - UM) <= UM \div inv_tol

\* PageRank was returned after several steps for a graph of three nodes, one
\* of them with no outgoing edge.
C18_Witness ==
  /\ pc = "metrics"
  /\ "pagerank" \notin excecoes
  /\ number_of_nodes(grafo) = 3
  /\ \E n \in Nodes(grafo) : out_degree(grafo, n) = 0
  /\ iteracoes > 1
  /\ pagerank # EmptyMap

\* The directed paths of g from s to t that repeat no node.
CaminhosSimples(g, s, t) ==
  { p \in UNION { [1..k -> Nodes(g)] : k \in 2..number_of_nodes(g) } :
      /\ p[1] = s /\ p[Len(p)] = t
      /\ \A i \in 1..(Len(p) - 1) : <<p[i], p[i + 1]>> \in Edges(g)
      /\ \A i, j \in 1..Len(p) : p[i] = p[j] => i = j }

\* Those of the fewest hops.
MaisCurtos(g, s, t) ==
  { p \in CaminhosSimples(g, s, t) :
      \A q \in CaminhosSimples(g, s, t) : Len(p) <= Len(q) }

\* v lies strictly inside a shortest path between two other nodes.
Interior(g, v) ==
  \E s, t \in Nodes(g) \ {v} :
    /\ s # t
    /\ \E p \in MaisCurtos(g, s, t) : \E i \in 2..(Len(p) - 1) : p[i] = v

\* g is the directed path a -> b -> c and nothing else.
CaminhoDeTres(g, a, b, c) ==
  /\ a # b /\ b # c /\ a # c
  /\ Nodes(g) = {a, b, c}
  /\ Edges(g) = { <<a, b>>, <<b, c>> }

\* C19: when the betweenness call did not raise, a node has betweenness
\* zero if it is inside no shortest directed path (counted in hops, whatever
\* the weights) between two other nodes and a positive one otherwise; on the
\* path a -> b -> c the middle node has a positive value and the ends zero.
C19_Betweenness ==
  (pc \in {"metrics", "main_metrics"} /\ "betweenness" \notin excecoes) =>
    /\ DOMAIN betweenness = Nodes(grafo)
    /\ \A v \in Nodes(grafo) :
         /\ ~Interior(grafo, v) => betweenness[v] = 0
         /\ Interior(grafo, v) => betweenness[v] > 0
    /\ \A a, b, c \in Nodes(grafo) :
         CaminhoDeTres(grafo, a, b, c) =>
           betweenness[b] > 0 /\ betweenness[a] = 0 /\ betweenness[c] = 0

\* Betweenness was computed on the path A -> B -> C, the weights not all
\* equal.
C19_Witness ==
  /\ pc = "metrics"
  /\ "betweenness" \notin excecoes
  /\ CaminhoDeTres(grafo, "A", "B", "C")
  /\ Weight(grafo, "A", "B") # Weight(grafo, "B", "C")
  /\ betweenness["B"] > 0

\* The records of the end-to-end example: 'A B 3', 'B C 1', 'A C 2', 'C A 4'.
RegistrosPontaAPonta ==
  (<<"A", "B">> :> 3) @@ (<<"B", "C">> :> 1) @@ (<<"A", "C">> :> 2) @@ (<<"C", "A">> :> 4)

\* C20: once the four records 'A B 3', 'B C 1', 'A C 2', 'C A 4' are
\* ingested the graph has 3 nodes and 4 edges; the degree centrality of A,
\* when its call did not raise, is 3/2; the undirected graph handed to the
\* community detection is the triangle on A, B, C; and the detection, when
\* it did not fail, returns the one community {A, B, C}.
C20_EndToEnd ==
  (pc \in {"loaded", "main_metrics"} /\ interacoes_processadas = 4
     /\ aceitos = RegistrosPontaAPonta) =>
    /\ number_of_nodes(grafo) = 3
    /\ number_of_edges(grafo) = 4
    /\ (pc = "main_metrics" /\ "degree" \notin excecoes) =>
         2 * degree_cent["A"] = 3 * UM
    /\ deteccao # "" =>
         /\ Nodes(analisado) = {"A", "B", "C"}
         /\ ArestasUnd(analisado) = { {"A", "B"}, {"B", "C"}, {"A", "C"} }
    /\ deteccao = "ok" => comunidades = << {"A", "B", "C"} >>

\* The example went through the detection and the metrics of main with no
\* call failing.
C20_Witness ==
  /\ pc = "main_metrics"
  /\ interacoes_processadas = 4
  /\ aceitos = RegistrosPontaAPonta
  /\ excecoes = {}
  /\ deteccao = "ok"
  /\ Len(comunidades) = 1
  /\ 2 * degree_cent["A"] = 3 * UM

\* C21: main ends with sys.exit(1) when the input is missing or the graph
\* carregar_grafo returns has no node, and then none of the later stages
\* (statistics, centralities, community detection, ranking, pictures,
\* export) has run or ever runs: a later stage has run only on a graph that
\* is not empty, and the one step main takes from an empty loaded graph is
\* the exit.
C21_PipelineAbort ==
  /\ [](/\ encerrou \in Erros => (pc = "exit" /\ etapas \cap Posteriores = {})
        /\ etapas \cap Posteriores # {} =>
             /\ number_of_nodes(grafo) # 0
             /\ number_of_nodes(analisado) # 0
             /\ encerrou \notin Erros)
  /\ [][/\ (pc = "loaded" /\ etapas = {} /\ number_of_nodes(grafo) = 0) =>
             encerrou' = "grafo vazio"
        /\ encerrou \in Erros => UNCHANGED vars]_vars

\* main has ended on the file whose records were all rejected.
C21_Witness ==
  /\ pc = "exit"
  /\ encerrou = "grafo vazio"
  /\ Len(arquivo) > 0
  /\ etapas = {"carregar_grafo"}

\* C22: when the library call of detectar_comunidades raises, the function
\* returns the empty list and main goes on: the ranking holds a score for
\* every node and counts no community, the export runs and gives no node a
\* community_id, and main reaches its end: until then the ranking or the
\* export has an outcome to go on with, and each step takes main further
\* down.
C22_DetectionFailure ==
  /\ [](deteccao = "erro" =>
          /\ comunidades = <<>>
          /\ encerrou \notin Erros
          /\ pc \in {"main_ranked", "done"} =>
               /\ DOMAIN scores = Nodes(analisado)
               /\ Len(top_spreaders) = Min(top_n_padrao, number_of_nodes(analisado))
               /\ comunidade_count = EmptyMap
          /\ pc = "done" =>
               /\ "exportar_gephi" \in etapas
               /\ gexf \in {"escrito", "falhou"}
               /\ DOMAIN atributos.copia = Nodes(analisado)
               /\ \A n \in Nodes(analisado) :
                    /\ "community_id" \notin DOMAIN atributos.copia[n]
                    /\ "degree" \in DOMAIN atributos.copia[n])
  /\ [](deteccao = "erro" =>
          /\ pc \in {"main_detected", "main_ranked", "done"}
          /\ pc = "main_detected" => Tentativas(analisado) # {}
          /\ pc = "main_ranked" => exportar_gephi(analisado, comunidades) # {})
  /\ [][deteccao = "erro" =>
          \/ pc = "main_detected" /\ pc' = "main_ranked"
          \/ pc = "main_ranked" /\ pc' = "done" /\ encerrou' = "fim"]_vars

\* main has ended, the file written, after the detection failed on a graph
\* of three nodes.
C22_Witness ==
  /\ pc = "done"
  /\ deteccao = "erro"
  /\ encerrou = "fim"
  /\ gexf = "escrito"
  /\ number_of_nodes(analisado) = 3
  /\ DOMAIN scores = Nodes(analisado)

\* The attributes exportar_gephi left on node n of its copy.
Chaves(n) == DOMAIN atributos.copia[n]

\* C23: after exportar_gephi every node of the copy carries the key of a
\* metric exactly when the metric was computed (its call was reached, the
\* graph below the node cap and, for closeness, weakly connected, and did
\* not raise), so that a metric not computed is on no node, with 0 or any
\* other value; it carries community_id exactly when a community of the list
\* holds it; and it always carries degree, in_degree and out_degree.
C23_ExportKeys ==
  gexf \in {"escrito", "falhou"} =>
    /\ DOMAIN atributos.copia = Nodes(exportado)
    /\ \A n \in Nodes(exportado) :
         LET pequeno == number_of_nodes(exportado) < num_nos_para_centralidades_caras
         IN  /\ "pagerank" \in Chaves(n) <=> "pagerank" \notin excecoes
             /\ "degree_centrality" \in Chaves(n) <=> "degree" \notin excecoes
             /\ "betweenness_centrality" \in Chaves(n)
                  <=> (pequeno /\ "betweenness" \notin excecoes)
             /\ "closeness_centrality" \in Chaves(n)
                  <=> (pequeno /\ FracamenteConexo(exportado)
                         /\ "closeness" \notin excecoes)
             /\ "community_id" \in Chaves(n)
                  <=> (\E i \in 1..Len(comunidades) : n \in comunidades[i])
             /\ {"degree", "in_degree", "out_degree"} \subseteq Chaves(n)
             /\ atributos.copia[n]["degree"] = GrauTotal(exportado, n)
             /\ atributos.copia[n]["in_degree"]
                  = Cardinality({ e \in Edges(exportado) : e[2] = n })
             /\ atributos.copia[n]["out_degree"]
                  = Cardinality({ e \in Edges(exportado) : e[1] = n })

\* The file was written for a graph that is not weakly connected, no call
\* having raised: closeness is on no node, the other metrics on all, and the
\* communities, detected on the reduced graph, hold some nodes only.
C23_Witness ==
  /\ gexf = "escrito"
  /\ excecoes = {}
  /\ number_of_nodes(exportado) >= 3
  /\ ~FracamenteConexo(exportado)
  /\ \A n \in Nodes(exportado) :
       "closeness_centrality" \notin Chaves(n) /\ "pagerank" \in Chaves(n)
  /\ \E n \in Nodes(exportado) : "community_id" \in Chaves(n)
  /\ \E n \in Nodes(exportado) : "community_id" \notin Chaves(n)

\* The count reported for community id i, 0 when none is.
Contagem(i) == IF i \in DOMAIN comunidade_count THEN comunidade_count[i] ELSE 0

\* The places of top_spreaders whose node is in the set c.
NoTop(c) == { k \in 1..Len(top_spreaders) : top_spreaders[k][1] \in c }

\* C24: once identificar_potenciais_espalhadores has returned, the count of
\* every community id is the number of top-N nodes in that community, no
\* other id is counted, the counts add up to the number of top-N nodes that
\* some community holds (all of them when the communities cover the graph),
\* and the scores and the top-N list are those computed from the metric
\* maps alone.
C24_CommunityDistribution ==
  pc = "ranked" =>
    /\ DOMAIN comunidade_count \subseteq 0..(Len(comunidades) - 1)
    /\ \A i \in 0..(Len(comunidades) - 1) :
         Contagem(i) = Cardinality(NoTop(comunidades[i + 1]))
    /\ Soma([i \in 0..(Len(comunidades) - 1) |-> Contagem(i)],
            [k \in 1..Len(comunidades) |-> k - 1])
         = Cardinality(NoTop(UNION Range(comunidades)))
    /\ UNION Range(comunidades) = Nodes(grafo) =>
         Soma([i \in 0..(Len(comunidades) - 1) |-> Contagem(i)],
              [k \in 1..Len(comunidades) |-> k - 1]) = Len(top_spreaders)
    /\ scores = [node \in Nodes(grafo) |->
                   Score(node, pagerank, degree_cent, betweenness, closeness)]
    /\ top_spreaders = PySlice(OrdenadosPorScore(grafo.node, scores), top_n)

\* Two of the four nodes of a graph of two communities were selected and
\* counted.
C24_Witness ==
  /\ pc = "ranked"
  /\ number_of_nodes(grafo) = 4
  /\ Len(comunidades) = 2
  /\ Len(top_spreaders) = 2
  /\ comunidade_count # EmptyMap
  /\ \A i \in DOMAIN comunidade_count : comunidade_count[i] < Cardinality(comunidades[i + 1])

\* The place of node n in the sequence ns.
Lugar(ns, n) == CHOOSE i \in 1..Len(ns) : ns[i] = n

\* C25: the undirected graph detectar_comunidades builds from a graph that
\* is not empty has the same nodes, and u and v are neighbours in it exactly
\* when u -> v or v -> u is an edge; the edge is one edge, with one weight
\* seen from both ends; the weight is that of the one directed edge when
\* there is one, and of the directed edge whose source is the later of the
\* two in the node order when there are two, a function of the graph.
C25_UndirectedProjection ==
  (deteccao # "" /\ number_of_nodes(analisado) # 0) =>
    /\ grafo_und.node = analisado.node
    /\ DOMAIN grafo_und.adj = Nodes(analisado)
    /\ \A u, v \in Nodes(analisado) :
         LET ida == <<u, v>> \in Edges(analisado)
             volta == <<v, u>> \in Edges(analisado)
         IN  /\ v \in DOMAIN grafo_und.adj[u] <=> (ida \/ volta)
             /\ (ida \/ volta) =>
                  /\ u \in DOMAIN grafo_und.adj[v]
                  /\ grafo_und.adj[u][v] = grafo_und.adj[v][u]
                  /\ grafo_und.adj[u][v]
                       \in { Weight(analisado, e[1], e[2]) :
                               e \in {<<u, v>>, <<v, u>>} \cap Edges(analisado) }
             /\ (ida /\ volta /\ Lugar(analisado.node, u) < Lugar(analisado.node, v)) =>
                  grafo_und.adj[u][v] = Weight(analisado, v, u)

\* The detection was called on a graph in which A and B are joined both
\* ways with different weights.
C25_Witness ==
  /\ deteccao = "ok"
  /\ <<"A", "B">> \in Edges(analisado) /\ <<"B", "A">> \in Edges(analisado)
  /\ Weight(analisado, "A", "B") # Weight(analisado, "B", "A")
  /\ Lugar(analisado.node, "B") < Lugar(analisado.node, "A")
  /\ grafo_und.adj["A"]["B"] = Weight(analisado, "A", "B")
  /\ number_of_nodes(analisado) = 3

\* C26: no step main takes after carregar_grafo has returned changes the
\* graph it built (its nodes and their order, its edges, their weights) or
\* the attributes of its nodes, which stay none; the reduction and the
\* export work on copies, and what the export writes is on its copy only.
C26_GraphImmutable ==
  /\ [](atributos.original = EmptyMap)
  /\ [](pc # "load" =>
          /\ Edges(grafo) = DOMAIN aceitos
          /\ \A e \in Edges(grafo) : Weight(grafo, e[1], e[2]) = aceitos[e])
  /\ [][pc # "load" =>
          /\ grafo' = grafo
          /\ atributos'.original = atributos.original]_vars

\* main has ended after reducing the graph and exporting the reduced one:
\* the copy's nodes carry attributes, the graph is whole and carries none.
C26_Witness ==
  /\ pc = "done"
  /\ gexf = "escrito"
  /\ saida = "subgrafo"
  /\ number_of_nodes(subgrafo) < number_of_nodes(grafo)
  /\ exportado = subgrafo
  /\ \A n \in Nodes(exportado) : "pagerank" \in DOMAIN atributos.copia[n]
  /\ atributos.original = EmptyMap
  /\ Edges(grafo) = DOMAIN aceitos

\* C27: a reduction by degree that selects nodes prefers the higher degree
\* and, between nodes of one degree, the node that entered the graph first;
\* the selection, and the nodes and edges of the graph returned, are the same
\* in every outcome of the call on the same graph.
C27_DegreeTieBreak ==
  (pc = "reduced" /\ metodo = "grau" /\ saida = "subgrafo") =>
    /\ Nodes(subgrafo) = Range(nos_selecionados)
    /\ \A u \in Range(nos_selecionados) :
         \A v \in Nodes(grafo) \ Range(nos_selecionados) :
           \/ GrauTotal(grafo, u) > GrauTotal(grafo, v)
           \/ /\ GrauTotal(grafo, u) = GrauTotal(grafo, v)
              /\ Lugar(grafo.node, u) < Lugar(grafo.node, v)
    /\ \A r \in gerar_subgrafo_reduzido(grafo, tamanho, metodo) :
         /\ r.sel = nos_selecionados
         /\ Nodes(r.g) = Nodes(subgrafo)
         /\ Edges(r.g) = Edges(subgrafo)

\* Two of three nodes were selected by degree, the second of them ahead of a
\* node of the same degree that entered the graph after it.
C27_Witness ==
  /\ pc = "reduced" /\ metodo = "grau" /\ saida = "subgrafo"
  /\ number_of_nodes(grafo) = 3
  /\ Len(nos_selecionados) = 2
  /\ \E v \in Nodes(grafo) \ Range(nos_selecionados) :
       /\ GrauTotal(grafo, v) = GrauTotal(grafo, nos_selecionados[2])
       /\ Lugar(grafo.node, nos_selecionados[2]) < Lugar(grafo.node, v)

\* The nodes the export gave the community id i.
ComId(i) ==
  { n \in DOMAIN atributos.copia :
      "community_id" \in DOMAIN atributos.copia[n] /\ atributos.copia[n]["community_id"] = i }

\* C28: the list detectar_comunidades returned is in non-increasing order of
\* size; the community_id the export wrote on a node is the index, from 0, of
\* the node's community in that list; the report counts the top spreaders
\* under the same ids; the nodes with id 0 are a largest community.
C28_CommunityIds ==
  (pc = "done" /\ comunidades # <<>>) =>
    /\ \A i, j \in 1..Len(comunidades) :
         i < j => Cardinality(comunidades[i]) >= Cardinality(comunidades[j])
    /\ \A i \in 1..Len(comunidades) : ComId(i - 1) = comunidades[i]
    /\ \A i \in 0..(Len(comunidades) - 1) :
         Contagem(i) = Cardinality({ k \in 1..Len(top_spreaders) :
                                       top_spreaders[k][1] \in ComId(i) })
    /\ DOMAIN comunidade_count \subseteq 0..(Len(comunidades) - 1)
    /\ \A j \in 1..Len(comunidades) :
         Cardinality(ComId(0)) >= Cardinality(comunidades[j])

\* A run of main ended with communities of two sizes, the export and the
\* report both holding the ids 0 and 1.
C28_Witness ==
  /\ pc = "done"
  /\ Len(comunidades) >= 2
  /\ Cardinality(comunidades[1]) > Cardinality(comunidades[2])
  /\ ComId(1) # {}
  /\ Contagem(0) > Contagem(1) /\ Contagem(1) > 0

\* The nodes the accepted records name.
NosAceitos == { e[1] : e \in DOMAIN aceitos } \cup { e[2] : e \in DOMAIN aceitos }

\* C29: the call of gerar_subgrafo_reduzido that the heavy carregar_grafo
\* makes before it reads a record returns an empty copy and puts no bound on
\* the graph: the graph returned holds the nodes and the edges of every
\* accepted record, whatever the size passed to the call, and is the graph
\* the loop builds from an empty one. The graph main analyses after its own
\* reduction to a positive size has at most that many nodes.
C29_PreLoadReduction ==
  /\ (pc = "loaded" /\ saida = "copia_vazia") =>
       /\ subgrafo = DiGraph
       /\ Nodes(grafo) = NosAceitos
       /\ Edges(grafo) = DOMAIN aceitos
       /\ \A e \in Edges(grafo) : Weight(grafo, e[1], e[2]) = aceitos[e]
       /\ grafo = Carrega([g |-> DiGraph, n |-> 0, aceitos |-> EmptyMap], arquivo).g
  /\ (pc \in {"main_stats", "main_detected"} /\ tamanho >= 1) =>
       /\ analisado = subgrafo
       /\ number_of_nodes(analisado) <= tamanho
       /\ Edges(grafo) = DOMAIN aceitos

\* The heavy carregar_grafo returned a graph of more nodes than the size it
\* passed to the call before the loop.
C29_Witness ==
  /\ pc = "loaded" /\ saida = "copia_vazia"
  /\ tamanho >= 1
  /\ number_of_nodes(grafo) > tamanho
  /\ Nodes(grafo) = NosAceitos

\* C30: at every point of carregar_grafo, and in the graph it returns, each
\* node has an edge at it (total degree at least 1), so the graph has no
\* node exactly when it has no edge; reading one more line never removes an
\* edge. (The graph gerar_subgrafo_reduzido returns is not held to this: see
\* the witness.)
C30_NoIsolatedNode ==
  /\ [](/\ \A n \in Nodes(grafo) : degree(grafo, n) >= 1
        /\ (number_of_nodes(grafo) = 0) <=> (number_of_edges(grafo) = 0))
  /\ [][Edges(grafo) \subseteq Edges(grafo')]_vars

\* A reduction returned a graph with a node that has no edge in it, taken
\* from a loaded graph of two or more accepted records in which every node
\* has one.
C30_Witness ==
  /\ pc = "reduced" /\ saida = "subgrafo"
  /\ interacoes_processadas >= 2
  /\ \E n \in Nodes(subgrafo) : degree(subgrafo, n) = 0 /\ degree(grafo, n) >= 1
  /\ \A n \in Nodes(grafo) : degree(grafo, n) >= 1

\* carregar_grafo alone.
NextCarga == LeLinha \/ FimArquivo
SpecCarga == Init /\ [][NextCarga]_vars

\* carregar_grafo, then a call of gerar_subgrafo_reduzido.
NextReducao == LeLinha \/ FimArquivo \/ Reduz
SpecReducao == Init /\ [][NextReducao]_vars

\* carregar_grafo, then a call of identificar_potenciais_espalhadores.
NextRanking == LeLinha \/ FimArquivo \/ Metricas \/ Pontua \/ EspalhadoresVazio
SpecRanking == Init /\ [][NextRanking]_vars

\* carregar_grafo, then detectar_comunidades on the loaded graph.
NextComunidades == LeLinha \/ FimArquivo \/ CarregaExemplo \/ CarregaCliques \/ Detecta
SpecComunidades == Init /\ [][NextComunidades]_vars

\* carregar_grafo on a whole file and gerar_subgrafo_reduzido, then
\* detectar_comunidades on the graph to analyse.
NextComunidadesReduzido == CarregaExemplo \/ Reduz \/ Detecta
SpecComunidadesReduzido == Init /\ [][NextComunidadesReduzido]_vars

\* carregar_grafo, then identificar_potenciais_espalhadores or main's own
\* metrics.
NextMetricas ==
  LeLinha \/ FimArquivo \/ Metricas \/ MetricasMain \/ Pontua \/ EspalhadoresVazio
SpecMetricas == Init /\ [][NextMetricas]_vars

\* carregar_grafo, then one of the places that compute the four metrics.
NextCentralidades ==
  \/ LeLinha \/ FimArquivo \/ AnalisaCentralidades \/ AnalisaCentralidadesInicial
  \/ Metricas \/ MetricasMain \/ MetricasGephi
SpecCentralidades == Init /\ [][NextCentralidades]_vars

\* main on one of the small files: carregar_grafo, detectar_comunidades, and
\* main's own metrics.
NextPrincipal == CarregaExemplo \/ Detecta \/ MetricasMain
SpecPrincipal == Init /\ [][NextPrincipal]_vars

\* The size guard of the metrics on graphs of any node count.
NextLimite == ContaNos \/ AplicaLimite
SpecLimite == Init /\ [][NextLimite]_vars

\* carregar_grafo on a whole file and detectar_comunidades, then
\* identificar_potenciais_espalhadores with the list detected.
NextEspalhadores == CarregaExemplo \/ Detecta \/ Metricas \/ Pontua \/ EspalhadoresVazio
SpecEspalhadores == Init /\ [][NextEspalhadores]_vars

\* main from the check of the path to its end, on one of the small files.
NextMain ==
  \/ CaminhoAusente \/ ArquivoNaoEncontrado \/ CarregaExemplo \/ MainVazio
  \/ MainReduz \/ MainEstatisticas \/ MainDetecta \/ MainIdentifica \/ MainExporta
SpecMain == Init /\ [][NextMain]_vars

\* carregar_grafo on a whole file and gerar_subgrafo_reduzido, then
\* detectar_comunidades and exportar_gephi.
NextExportacao == CarregaExemplo \/ Reduz \/ Detecta \/ Exporta \/ ExportaVazio
SpecExportacao == Init /\ [][NextExportacao]_vars

\* main of the heavy revision up to the detection of the communities of
\* the graph it analyses.
NextPesado ==
  CarregaPesado \/ MainVazio \/ MainReduz \/ MainEstatisticas \/ MainDetecta
SpecPesado == Init /\ [][NextPesado]_vars

Next ==
  \/ CarregaPesado
  \/ CaminhoAusente \/ ArquivoNaoEncontrado \/ MainVazio
  \/ MainReduz \/ MainEstatisticas \/ MainDetecta \/ MainIdentifica \/ MainExporta
  \/ Exporta \/ ExportaVazio
  \/ ContaNos \/ AplicaLimite
  \/ LeLinha \/ FimArquivo \/ CarregaExemplo \/ CarregaCliques \/ Reduz \/ Detecta
  \/ Metricas \/ MetricasMain \/ MetricasGephi \/ Pontua \/ EspalhadoresVazio
  \/ AnalisaCentralidades \/ AnalisaCentralidadesInicial

Spec == Init /\ [][Next]_vars
====
